---- MODULE Spec2Model ----
(***************************************************************************)
(* Request orchestration of the partitioning gateway:                      *)
(*   - the PDF fan-out / fan-in dispatcher with bounded retry              *)
(*     (prepline_general/api/general.py), specification Spec;              *)
(*   - the admission middleware and the health probe                       *)
(*     (prepline_general/api/app.py), specification SpecAdmission.         *)
(***************************************************************************)
EXTENDS Integers, Sequences, FiniteSets, TLC

(* ------------------------------ bounds --------------------------------- *)
MaxPages == 3
MaxSplitSize == 2
MaxStartingPage == 2

(* ------------------------- program constants --------------------------- *)
\* int(os.environ.get("UNSTRUCTURED_PARALLEL_RETRY_ATTEMPTS", 2)) + 1
DefaultRetryAttempts == 2
\* int(os.environ.get("UNSTRUCTURED_PARALLEL_MODE_THREADS", 3))
DefaultThreadCount == 3
\* int(os.environ.get("UNSTRUCTURED_PARALLEL_MODE_SPLIT_SIZE", 1))
DefaultSplitSize == 1
\* partition_kwargs.get("starting_page_number", 1)
DefaultStartingPage == 1

VARIABLES
    \* -- configuration and request inputs of one dispatch --
    pdf_pages,             \* the pages of the uploaded PDF (page identities 0..P-1)
    pages_per_pdf,         \* UNSTRUCTURED_PARALLEL_MODE_SPLIT_SIZE
    thread_count,          \* UNSTRUCTURED_PARALLEL_MODE_THREADS
    max_tries,             \* backoff max_tries of call_api
    request_url,           \* UNSTRUCTURED_PARALLEL_MODE_URL, <<>> when unset
    starting_page_number,  \* the request's own starting_page_number
    accept_type,           \* the request's Accept header
    \* -- partition_pdf_splits --
    pc,                    \* position of the request thread
    offset,                \* get_pdf_splits: the generator's offset
    splits,                \* the (pages, offset) tuples yielded so far
    fstate,                \* per future: PENDING, RUNNING, FINISHED, CANCELLED
    calls,                 \* per future: status of every requests.post made
    sent_page,             \* per future: starting_page_number sent to the remote
    fresult,               \* per future: the elements it returned
    fexc,                  \* per future: the exception it raised
    collected,             \* futures whose result the map iterator has yielded
    results,               \* the local list `results`
    outcome,               \* what partition_pdf_splits returned or raised
    \* -- history, not program state --
    first_failed,          \* the future whose failure completed first (0: none)
    out_of_order,          \* some future finished before a lower-index one
    \* -- the HTTP response of the request --
    response_started,      \* http.response.start has been sent
    http_status,           \* the status sent to the client (0: none yet)
    http_body,             \* the elements sent to the client
    \* -- admission state (app.py) --
    is_memory_low,
    active_requests,
    rpc,                   \* per request: its position in the middleware
    rstatus,               \* per request: the status of its last response
    mem_usage,             \* the memory reading of the environment
    health,                \* the last answer of app.py's /healthcheck
    \* -- events.py: memory check, readiness marking, probes --
    ev_memory_low,         \* events.is_memory_low
    ev_checked,            \* the reading the last check_memory() saw
    ev_health,             \* the last answer of events.healthcheck
    is_ready,
    is_live,
    is_processing,
    processed_requests,
    use_max_requests_limit,          \* USE_MAX_REQUESTS_LIMIT
    make_not_ready_when_processing,  \* MAKE_NOT_READY_WHEN_PROCESSING
    max_requests,                    \* MAX_REQUESTS
    epc,                   \* per request: position in NotReadyMarkingMiddleware
    eorig,                 \* per request: the original_* locals of dispatch
    estatus,               \* per request: the status of its response
    mstatus,               \* per request: answer of events.MemoryCheckMiddleware
    \* -- general_partition over the uploaded files --
    num_files,             \* len(files)
    output_format,         \* form_params.output_format
    boundary_value,        \* MultipartMixedResponse.boundary_value
    fpc,                   \* position of general_partition / stream_response
    gen_idx,               \* response_generator: files it has taken up
    held,                  \* responses yielded and not yet sent or joined
    sent,                  \* the ASGI messages sent to the client, in order
    file_exc,              \* the exception a file's pipeline_api raised
    api_key_env,           \* UNSTRUCTURED_API_KEY, <<>> when unset
    api_key,               \* the unstructured-api-key header, <<>> when absent
    \* -- memory_protection.py --
    is_chipper_processing,
    chipper_pc,            \* per request: position in ChipperMemoryProtection
    \* -- join_responses with output_format text/csv --
    csv_responses,         \* the per-file CSV responses, in file order
    csv_data,              \* the DataFrame `data`
    csv_idx,               \* the responses merged into `data` so far
    csv_pc                 \* position in join_responses

envVars == <<pdf_pages, pages_per_pdf, thread_count, max_tries, request_url,
             starting_page_number, accept_type>>
poolVars == <<fstate, calls, sent_page, fresult, fexc>>
histVars == <<first_failed, out_of_order>>
httpVars == <<response_started, http_status, http_body>>
dispatchVars == <<envVars, pc, offset, splits, poolVars, collected, results,
                  outcome, histVars, httpVars>>
admissionVars == <<is_memory_low, active_requests, rpc, rstatus, mem_usage,
                   health>>
eventsConfig == <<use_max_requests_limit, make_not_ready_when_processing,
                  max_requests>>
readinessVars == <<is_ready, is_live, is_processing, processed_requests>>
eventsVars == <<ev_memory_low, ev_checked, ev_health, readinessVars,
                eventsConfig, epc, eorig, estatus, mstatus>>
apiKeyVars == <<api_key_env, api_key>>
filesVars == <<num_files, output_format, boundary_value, fpc, gen_idx, held,
               sent, file_exc, apiKeyVars>>
chipperVars == <<is_chipper_processing, chipper_pc>>
csvVars == <<csv_responses, csv_data, csv_idx, csv_pc>>
\* what the actions of one part of the program leave alone
notDispatchVars == <<admissionVars, filesVars, eventsVars, chipperVars,
                     csvVars>>
notAdmissionVars == <<dispatchVars, filesVars, eventsVars, chipperVars,
                      csvVars>>
notFilesVars == <<dispatchVars, admissionVars, eventsVars, chipperVars,
                  csvVars>>
notEventsVars == <<dispatchVars, filesVars, is_memory_low, active_requests,
                   rpc, rstatus, health, chipperVars, csvVars>>
notChipperVars == <<dispatchVars, admissionVars, filesVars, eventsVars,
                    csvVars>>
notCsvVars == <<dispatchVars, admissionVars, filesVars, eventsVars,
                chipperVars>>
vars == <<dispatchVars, admissionVars, filesVars, eventsVars, chipperVars,
          csvVars>>

(* ------------------------------ helpers -------------------------------- *)
Min(a, b) == IF a <= b THEN a ELSE b
Max(a, b) == IF a >= b THEN a ELSE b

\* os.environ.get(name, default): an unset variable is the empty sequence
Getenv(env, default) == IF env = <<>> THEN default ELSE env[1]

\* Python's seq[a:b] on a sequence indexed from 0
PySlice(seq, a, b) ==
    LET n  == Len(seq)
        lo == IF a < 0 THEN Max(a + n, 0) ELSE Min(a, n)
        hi == IF b < 0 THEN Max(b + n, 0) ELSE Min(b, n)
    IN  SubSeq(seq, lo + 1, hi)

Pages(n) == [i \in 1..n |-> i - 1]

NoExc == [type |-> "none", status_code |-> 0]
HTTPException(status) == [type |-> "HTTPException", status_code |-> status]
\* requests.exceptions.RequestException: an OSError without a status code
RequestException == [type |-> "RequestException", status_code |-> 0]
EngineException(t) == [type |-> t, status_code |-> 0]


(* --------------------------- get_pdf_splits ---------------------------- *)
\* mutant: the slice runs one page too far
get_pdf_splits_yield_overlap(pages, off, split_size) ==
    [pages |-> PySlice(pages, off, off + split_size + 1), offset |-> off]

\* the tuple yielded at `offset`: (pdf_pages[offset:offset + split_size], offset)
get_pdf_splits_yield(pages, off, split_size) ==
    [pages |-> PySlice(pages, off, off + split_size), offset |-> off]

\* mutant: the offset is not advanced
get_pdf_splits_advance_stuck(off, split_size) == off

\* offset += split_size
get_pdf_splits_advance(off, split_size) == off + split_size

(* ------------------------ is_non_retryable, call_api ------------------- *)
\* mutant: 400 itself is taken for retryable
is_non_retryable_above_400(e) ==
    IF e.type # "HTTPException"
    THEN TRUE
    ELSE 400 < e.status_code /\ e.status_code < 500

is_non_retryable(e) ==
    IF e.type # "HTTPException"
    THEN TRUE
    ELSE 400 <= e.status_code /\ e.status_code < 500

\* max_tries=int(os.environ.get("UNSTRUCTURED_PARALLEL_RETRY_ATTEMPTS", 2)) + 1
call_api_max_tries(env) == Getenv(env, DefaultRetryAttempts) + 1

\* mutant: one try too many
call_api_gives_up_late(e, tries, maxtries) ==
    is_non_retryable(e) \/ tries > maxtries

\* backoff.on_exception(expo, HTTPException, max_tries, giveup): after the
\* tries-th call raised HTTPException e, the exception is re-raised when
\* giveup(e) holds or the tries are used up; otherwise the call is repeated.
call_api_gives_up(e, tries, maxtries) ==
    is_non_retryable(e) \/ tries >= maxtries


\* mutant: every error without a client-error status is retried
call_api_retries_unless_client_error(e, tries, maxtries) ==
    /\ ~(400 <= e.status_code /\ e.status_code < 500)
    /\ tries < maxtries

\* backoff.on_exception(backoff.expo, HTTPException, ...): the decorator's
\* `except HTTPException` is the only place a call is repeated from, so an
\* exception of another type leaves call_api at once
call_api_retries(e, tries, maxtries) ==
    /\ e.type = "HTTPException"
    /\ ~call_api_gives_up(e, tries, maxtries)

\* if response.status_code != 200: raise HTTPException(response.status_code)
call_api_raise(status) == HTTPException(status)

\* the statuses the modelled remote answers with, besides 200: one that
\* is_non_retryable gives up on and one that it retries
ErrorStatuses == {400, 500}

(* ------------------------ partition_file_via_api ----------------------- *)
\* mutant: the chunk's offset is not added
partition_file_via_api_page_no_offset(kwargs_page, page_offset) == kwargs_page

\* partition_kwargs["starting_page_number"] =
\*     partition_kwargs.get("starting_page_number", 1) + page_offset
partition_file_via_api_page(kwargs_page, page_offset) ==
    kwargs_page + page_offset

\* The Partition Engine behind the remote endpoint and behind the local call:
\* one element per page, numbered from the starting_page_number it is given.
partition(pages, first_page) ==
    [i \in 1..Len(pages) |->
        [element_id |-> pages[i], page_number |-> first_page + i - 1]]

(* -------------------------- partition_pdf_splits ----------------------- *)
Futures == 1..Len(fstate)
Running == {k \in Futures : fstate[k] = "RUNNING"}
Pending == {k \in Futures : fstate[k] = "PENDING"}
Failed == {k \in Futures : fexc[k] # NoExc}
IsChunked == Len(pdf_pages) > pages_per_pdf

\* mutant: the results are taken as the futures complete
next_future_as_completed(done) ==
    LET ready == {k \in Futures :
                    /\ fstate[k] = "FINISHED"
                    /\ \A i \in 1..Len(done) : done[i] # k}
    IN  IF ready # {}
        THEN CHOOSE k \in ready : \A j \in ready : k <= j
        ELSE Len(done) + 1

\* executor.map yields fs.pop() of the reversed list: submission order
next_future(done) == Len(done) + 1

\* mutant: the error is swallowed and what was merged so far is returned
partition_pdf_splits_return_partial(exc, partial) ==
    [kind |-> "return", elements |-> partial, exc |-> NoExc]

\* an exception leaving partition_pdf_splits: the list `results` is dropped
partition_pdf_splits_raise(exc, partial) ==
    [kind |-> "raise", elements |-> <<>>, exc |-> exc]

partition_pdf_splits_return(elements) ==
    [kind |-> "return", elements |-> elements, exc |-> NoExc]

\* mutant: the whole file is numbered as if it were the second chunk
PartitionLocally_rebased ==
    /\ pc = "partition_pdf_splits"
    /\ Len(pdf_pages) <= pages_per_pdf
    /\ outcome' = partition_pdf_splits_return(
                      partition(pdf_pages,
                                partition_file_via_api_page(
                                    starting_page_number, pages_per_pdf)))
    /\ pc' = "returned"
    /\ UNCHANGED <<envVars, offset, splits, poolVars, collected, results,
                   histVars, httpVars, notDispatchVars>>

\* if len(pdf_pages) <= pages_per_pdf: return partition(file=file, ...)
PartitionLocally ==
    /\ pc = "partition_pdf_splits"
    /\ Len(pdf_pages) <= pages_per_pdf
    /\ outcome' = partition_pdf_splits_return(
                      partition(pdf_pages, starting_page_number))
    /\ pc' = "returned"
    /\ UNCHANGED <<envVars, offset, splits, poolVars, collected, results,
                   histVars, httpVars, notDispatchVars>>

\* the Partition Engine fails on the whole file
EngineErrors == {"OSError", "PageCountExceededError", "ValueError",
                 "ValueError: Invalid file", "UnknownModelException"}

PartitionLocallyFails ==
    /\ pc = "partition_pdf_splits"
    /\ Len(pdf_pages) <= pages_per_pdf
    /\ \E t \in EngineErrors :
          outcome' = partition_pdf_splits_raise(EngineException(t), results)
    /\ pc' = "raising"
    /\ UNCHANGED <<envVars, offset, splits, poolVars, collected, results,
                   histVars, httpVars, notDispatchVars>>

\* page_iterator = get_pdf_splits(...); executor.map(partition_func, ...)
StartMap ==
    /\ pc = "partition_pdf_splits"
    /\ Len(pdf_pages) > pages_per_pdf
    /\ offset' = 0
    /\ pc' = "map"
    /\ UNCHANGED <<envVars, splits, poolVars, collected, results, outcome,
                   histVars, httpVars, notDispatchVars>>

\* the futures looked at when the generator has no end (a file of MaxPages
\* pages never needs more with a split size >= 1)
MaxSplits == MaxPages

\* executor.map submits one future per tuple the generator yields
SubmitSplit ==
    /\ pc = "map"
    /\ offset < Len(pdf_pages)
    /\ Len(splits) < MaxSplits
    /\ splits' = Append(splits,
                        get_pdf_splits_yield(pdf_pages, offset, pages_per_pdf))
    /\ offset' = get_pdf_splits_advance(offset, pages_per_pdf)
    /\ fstate' = Append(fstate, "PENDING")
    /\ calls' = Append(calls, <<>>)
    /\ sent_page' = Append(sent_page, 0)
    /\ fresult' = Append(fresult, <<>>)
    /\ fexc' = Append(fexc, NoExc)
    /\ UNCHANGED <<envVars, pc, collected, results, outcome, histVars,
                   httpVars, notDispatchVars>>

\* the generator is exhausted: `while offset < len(pdf_pages)` is false
MapSubmitted ==
    /\ pc = "map"
    /\ ~(offset < Len(pdf_pages))
    /\ pc' = "iterate"
    /\ UNCHANGED <<envVars, offset, splits, poolVars, collected, results,
                   outcome, histVars, httpVars, notDispatchVars>>

FinishesOutOfOrder(k) == \E j \in Futures : j < k /\ fstate[j] # "FINISHED"

\* mutant: the chunk calls share one partition_kwargs, so each offset is
\* added to the page number the call before left there
StartWork_shared_kwargs(k) ==
    /\ fstate[k] = "PENDING"
    /\ \A j \in Pending : k <= j
    /\ Cardinality(Running) < thread_count
    /\ request_url # <<>>
    /\ fstate' = [fstate EXCEPT ![k] = "RUNNING"]
    /\ sent_page' = [sent_page EXCEPT ![k] =
          partition_file_via_api_page(
             IF k = 1 THEN starting_page_number ELSE sent_page[k - 1],
             splits[k].offset)]
    /\ UNCHANGED <<envVars, pc, offset, splits, calls, fresult, fexc,
                   collected, results, outcome, histVars, httpVars,
                   notDispatchVars>>

\* mutant: one thread per work item
StartWork_thread_per_item(k) ==
    /\ fstate[k] = "PENDING"
    /\ \A j \in Pending : k <= j
    /\ request_url # <<>>
    /\ fstate' = [fstate EXCEPT ![k] = "RUNNING"]
    /\ sent_page' = [sent_page EXCEPT ![k] =
          partition_file_via_api_page(starting_page_number, splits[k].offset)]
    /\ UNCHANGED <<envVars, pc, offset, splits, calls, fresult, fexc,
                   collected, results, outcome, histVars, httpVars,
                   notDispatchVars>>

\* a pool thread takes the oldest queued work item; partition_file_via_api
\* runs up to call_api
StartWork(k) ==
    /\ fstate[k] = "PENDING"
    /\ \A j \in Pending : k <= j
    /\ Cardinality(Running) < thread_count
    /\ request_url # <<>>
    /\ fstate' = [fstate EXCEPT ![k] = "RUNNING"]
    /\ sent_page' = [sent_page EXCEPT ![k] =
          partition_file_via_api_page(starting_page_number, splits[k].offset)]
    /\ UNCHANGED <<envVars, pc, offset, splits, calls, fresult, fexc,
                   collected, results, outcome, histVars, httpVars,
                   notDispatchVars>>

\* mutant: the missing url is found inside call_api, after an attempt
StartWorkNoUrl_after_attempt(k) ==
    /\ fstate[k] = "PENDING"
    /\ \A j \in Pending : k <= j
    /\ Cardinality(Running) < thread_count
    /\ request_url = <<>>
    /\ calls' = [calls EXCEPT ![k] = Append(@, 500)]
    /\ fstate' = [fstate EXCEPT ![k] = "FINISHED"]
    /\ fexc' = [fexc EXCEPT ![k] = HTTPException(500)]
    /\ first_failed' = IF first_failed = 0 THEN k ELSE first_failed
    /\ out_of_order' = (out_of_order \/ FinishesOutOfOrder(k))
    /\ UNCHANGED <<envVars, pc, offset, splits, sent_page, fresult,
                   collected, results, outcome, httpVars, notDispatchVars>>

\* if not request_url: raise HTTPException(status_code=500, ...)
StartWorkNoUrl(k) ==
    /\ fstate[k] = "PENDING"
    /\ \A j \in Pending : k <= j
    /\ Cardinality(Running) < thread_count
    /\ request_url = <<>>
    /\ fstate' = [fstate EXCEPT ![k] = "FINISHED"]
    /\ fexc' = [fexc EXCEPT ![k] = HTTPException(500)]
    /\ first_failed' = IF first_failed = 0 THEN k ELSE first_failed
    /\ out_of_order' = (out_of_order \/ FinishesOutOfOrder(k))
    /\ UNCHANGED <<envVars, pc, offset, splits, calls, sent_page, fresult,
                   collected, results, outcome, httpVars, notDispatchVars>>

\* requests.post answers 200: return elements_from_json(response.text)
CallApiOk(k) ==
    /\ fstate[k] = "RUNNING"
    /\ calls' = [calls EXCEPT ![k] = Append(@, 200)]
    /\ fstate' = [fstate EXCEPT ![k] = "FINISHED"]
    /\ fresult' = [fresult EXCEPT ![k] = partition(splits[k].pages, sent_page[k])]
    /\ out_of_order' = (out_of_order \/ FinishesOutOfOrder(k))
    /\ UNCHANGED <<envVars, pc, offset, splits, sent_page, fexc, collected,
                   results, outcome, first_failed, httpVars, notDispatchVars>>

\* requests.post answers another status: HTTPException, retried by backoff
\* unless it gives up
CallApiError(k) ==
    /\ fstate[k] = "RUNNING"
    /\ \E status \in ErrorStatuses :
          LET e == call_api_raise(status)
              tries == Len(calls[k]) + 1
          IN  /\ calls' = [calls EXCEPT ![k] = Append(@, status)]
              /\ IF call_api_gives_up(e, tries, max_tries)
                 THEN /\ fstate' = [fstate EXCEPT ![k] = "FINISHED"]
                      /\ fexc' = [fexc EXCEPT ![k] = e]
                      /\ first_failed' =
                            IF first_failed = 0 THEN k ELSE first_failed
                      /\ out_of_order' =
                            (out_of_order \/ FinishesOutOfOrder(k))
                 ELSE UNCHANGED <<fstate, fexc, histVars>>
    /\ UNCHANGED <<envVars, pc, offset, splits, sent_page, fresult,
                   collected, results, outcome, httpVars, notDispatchVars>>

\* requests.post itself raises (connection error, timeout), or the error
\* body is no JSON: not an HTTPException, so backoff lets it through
CallApiRequestException(k) ==
    /\ fstate[k] = "RUNNING"
    /\ calls' = [calls EXCEPT ![k] = Append(@, 0)]
    /\ IF call_api_retries(RequestException, Len(calls[k]) + 1, max_tries)
       THEN UNCHANGED <<fstate, fexc, histVars>>
       ELSE /\ fstate' = [fstate EXCEPT ![k] = "FINISHED"]
            /\ fexc' = [fexc EXCEPT ![k] = RequestException]
            /\ first_failed' = IF first_failed = 0 THEN k ELSE first_failed
            /\ out_of_order' = (out_of_order \/ FinishesOutOfOrder(k))
    /\ UNCHANGED <<envVars, pc, offset, splits, sent_page, fresult,
                   collected, results, outcome, httpVars, notDispatchVars>>

\* mutant: `results = result` where the code has results.extend(result)
CollectResult_keeps_last ==
    /\ pc = "iterate"
    /\ Len(collected) < Len(fstate)
    /\ LET k == next_future(collected)
       IN  /\ k \in Futures
           /\ fstate[k] = "FINISHED"
           /\ fexc[k] = NoExc
           /\ results' = fresult[k]
           /\ collected' = Append(collected, k)
    /\ UNCHANGED <<envVars, pc, offset, splits, poolVars, outcome, histVars,
                   httpVars, notDispatchVars>>

\* for result in executor.map(...): results.extend(result)
CollectResult ==
    /\ pc = "iterate"
    /\ Len(collected) < Len(fstate)
    /\ LET k == next_future(collected)
       IN  /\ k \in Futures
           /\ fstate[k] = "FINISHED"
           /\ fexc[k] = NoExc
           /\ results' = results \o fresult[k]
           /\ collected' = Append(collected, k)
    /\ UNCHANGED <<envVars, pc, offset, splits, poolVars, outcome, histVars,
                   httpVars, notDispatchVars>>

\* the awaited future raised: the iterator's finally cancels the futures not
\* yet yielded, and the exception leaves the for loop
CollectException ==
    /\ pc = "iterate"
    /\ Len(collected) < Len(fstate)
    /\ LET k == next_future(collected)
       IN  /\ k \in Futures
           /\ fstate[k] = "FINISHED"
           /\ fexc[k] # NoExc
           /\ outcome' = partition_pdf_splits_raise(fexc[k], results)
           /\ fstate' = [j \in Futures |->
                           IF j > k /\ fstate[j] = "PENDING"
                           THEN "CANCELLED" ELSE fstate[j]]
    /\ pc' = "raising"
    /\ UNCHANGED <<envVars, offset, splits, calls, sent_page, fresult, fexc,
                   collected, results, histVars, httpVars, notDispatchVars>>

\* every future was yielded: the with block ends, return results
ReturnResults ==
    /\ pc = "iterate"
    /\ Len(collected) = Len(fstate)
    /\ outcome' = partition_pdf_splits_return(results)
    /\ pc' = "returned"
    /\ UNCHANGED <<envVars, offset, splits, poolVars, collected, results,
                   histVars, httpVars, notDispatchVars>>

(* ------------- pipeline_api, general_partition, the response ----------- *)
\* the except clauses of pipeline_api around the partition calls
pipeline_api_except(e) ==
    CASE e.type \in {"OSError", "RequestException"} -> HTTPException(500)
      [] e.type = "PageCountExceededError" -> HTTPException(422)
      [] e.type = "ValueError: Invalid file" -> HTTPException(400)
      [] e.type = "UnknownModelException" -> HTTPException(400)
      [] OTHER -> e

\* app.py: http_error_handler answers e.status_code, error_handler 500
exception_handler_status(e) ==
    IF e.type = "HTTPException" THEN e.status_code ELSE 500

IsMultipart == accept_type = "multipart/mixed"

\* general_partition without Accept: multipart/mixed:
\* list(response_generator(is_multipart=False)) runs pipeline_api at once
GeneralPartition ==
    /\ pc = "request"
    /\ ~IsMultipart
    /\ pc' = "partition_pdf_splits"
    /\ UNCHANGED <<envVars, offset, splits, poolVars, collected, results,
                   outcome, histVars, httpVars, notDispatchVars>>

\* MultipartMixedResponse.stream_response: http.response.start goes out with
\* self.status_code before the body iterator (response_generator) is run
StreamResponseStart ==
    /\ pc = "request"
    /\ IsMultipart
    /\ response_started' = TRUE
    /\ http_status' = 200
    /\ pc' = "partition_pdf_splits"
    /\ UNCHANGED <<envVars, offset, splits, poolVars, collected, results,
                   outcome, histVars, http_body, notDispatchVars>>

\* the file's elements are rendered and sent: as the 200 response, or as the
\* part of the stream that has already started
RespondElements ==
    /\ pc = "returned"
    /\ response_started' = TRUE
    /\ http_status' = IF response_started THEN http_status ELSE 200
    /\ http_body' = outcome.elements
    /\ pc' = "responded"
    /\ UNCHANGED <<envVars, offset, splits, poolVars, collected, results,
                   outcome, histVars, notDispatchVars>>

\* mutant: the pool is shut down without waiting (shutdown(wait=False))
RespondError_no_join ==
    /\ pc = "raising"
    /\ response_started' = TRUE
    /\ http_status' = IF response_started
                      THEN http_status
                      ELSE exception_handler_status(pipeline_api_except(outcome.exc))
    /\ pc' = "responded"
    /\ UNCHANGED <<envVars, offset, splits, poolVars, collected, results,
                   outcome, histVars, http_body, notDispatchVars>>

\* An exception is on its way out of partition_pdf_splits. Leaving the
\* `with ThreadPoolExecutor` block joins the calls still running
\* (shutdown(wait=True)); then the exception passes the except clauses of
\* pipeline_api and the exception handlers answer it, unless the response has
\* started, and then the stream just ends.
RespondError ==
    /\ pc = "raising"
    /\ Running = {}
    /\ response_started' = TRUE
    /\ http_status' = IF response_started
                      THEN http_status
                      ELSE exception_handler_status(pipeline_api_except(outcome.exc))
    /\ pc' = "responded"
    /\ UNCHANGED <<envVars, offset, splits, poolVars, collected, results,
                   outcome, histVars, http_body, notDispatchVars>>

(* ------------------- app.py: admission and health probe ---------------- *)
MaxClients == 2
Clients == 1..MaxClients

\* the (usage, limit) pairs the environment shows, in MB
MemoryReadings == {[usage |-> 700, limit |-> 1000],
                   [usage |-> 800, limit |-> 1000],
                   [usage |-> 850, limit |-> 1000]}

\* _check_free_memory: low when usage >= 0.8 * limit
check_free_memory(reading) == reading.usage * 10 >= reading.limit * 8

\* mutant: the memory check is skipped
dispatch_rejects_never(low) == FALSE

\* if is_memory_low: raise HTTPException(status_code=503, ...)
dispatch_rejects(low) == low

\* with request_lock: active_requests += 1
dispatch_acquire(active) == active + 1

\* mutant: the release sits on the happy path only
dispatch_release_on_return(active, raised) ==
    IF raised THEN active ELSE active - 1

\* finally: with request_lock: active_requests -= 1
dispatch_release(active, raised) == active - 1

\* the statuses the downstream handler answers a partition request with
HandlerStatuses == {200, 400, 422, 500}

\* a client sends POST /general/v0/general
NewRequest(r) ==
    /\ rpc[r] \in {"none", "rejected", "done", "raised"}
    /\ rpc' = [rpc EXCEPT ![r] = "dispatch"]
    /\ rstatus' = [rstatus EXCEPT ![r] = 0]
    /\ UNCHANGED <<notAdmissionVars, health, is_memory_low, active_requests, mem_usage>>

\* MemoryCheckMiddleware.dispatch up to `await call_next(request)`
DispatchReject(r) ==
    /\ rpc[r] = "dispatch"
    /\ dispatch_rejects(is_memory_low)
    /\ rpc' = [rpc EXCEPT ![r] = "rejected"]
    /\ rstatus' = [rstatus EXCEPT ![r] = 503]
    /\ UNCHANGED <<notAdmissionVars, health, is_memory_low, active_requests, mem_usage>>

DispatchAdmit(r) ==
    /\ rpc[r] = "dispatch"
    /\ ~dispatch_rejects(is_memory_low)
    /\ active_requests' = dispatch_acquire(active_requests)
    /\ rpc' = [rpc EXCEPT ![r] = "call_next"]
    /\ UNCHANGED <<notAdmissionVars, health, is_memory_low, rstatus, mem_usage>>

\* call_next returns a response; the finally clause releases
CallNextReturns(r) ==
    /\ rpc[r] = "call_next"
    /\ \E status \in HandlerStatuses :
          rstatus' = [rstatus EXCEPT ![r] = status]
    /\ active_requests' = dispatch_release(active_requests, FALSE)
    /\ rpc' = [rpc EXCEPT ![r] = "done"]
    /\ UNCHANGED <<notAdmissionVars, health, is_memory_low, mem_usage>>

\* call_next raises; the finally clause releases and the exception goes on
\* to the server's error_handler
CallNextRaises(r) ==
    /\ rpc[r] = "call_next"
    /\ rstatus' = [rstatus EXCEPT ![r] = 500]
    /\ active_requests' = dispatch_release(active_requests, TRUE)
    /\ rpc' = [rpc EXCEPT ![r] = "raised"]
    /\ UNCHANGED <<notAdmissionVars, health, is_memory_low, mem_usage>>

\* the environment: memory usage moves
MemoryUsageChanges ==
    /\ \E m \in MemoryReadings : mem_usage' = m /\ m # mem_usage
    /\ UNCHANGED <<notAdmissionVars, health, is_memory_low, active_requests, rpc, rstatus>>

NoHealth == [status_code |-> 0, status |-> "none", memory_status |-> "none",
             active_requests |-> 0]

\* mutant: memory alone decides the answer
healthcheck_response_memory_only(low, active) ==
    IF low
    THEN [status_code |-> 503, status |-> "UNHEALTHY",
          memory_status |-> "LOW", active_requests |-> active]
    ELSE [status_code |-> 200, status |-> "HEALTHY", memory_status |-> "OK",
          active_requests |-> active]

\* healthcheck: with is_memory_low, 503 UNHEALTHY if active_requests == 0
\* else 200 DEGRADED; without, HEALTHY (status_code of the route: 200)
healthcheck_response(low, active) ==
    IF low
    THEN [status_code |-> IF active = 0 THEN 503 ELSE 200,
          status |-> IF active = 0 THEN "UNHEALTHY" ELSE "DEGRADED",
          memory_status |-> "LOW", active_requests |-> active]
    ELSE [status_code |-> 200, status |-> "HEALTHY", memory_status |-> "OK",
          active_requests |-> active]

\* GET /healthcheck: _check_free_memory() refreshes is_memory_low, then the
\* answer is built from is_memory_low and active_requests
Healthcheck ==
    /\ is_memory_low' = check_free_memory(mem_usage)
    /\ health' = healthcheck_response(is_memory_low', active_requests)
    /\ UNCHANGED <<notAdmissionVars, active_requests, rpc, rstatus, mem_usage>>

(* ------- general_partition: the files of one request, the response ----- *)
MaxFiles == 3
MaxPayloadLen == 4

\* secrets.token_hex(16), drawn once per response in init_headers
BoundaryTokens == {"token_a", "token_b"}
OutputFormats == {"application/json", "text/csv"}

\* the rendered result of one file: text of `len` characters
NoChunk == [file |-> 0, len |-> 0, encoding |-> "none"]
Rendered(i, n) == [file |-> i, len |-> n, encoding |-> "utf-8"]

\* b64encode(chunk.encode(charset)): 4 output bytes for every 3 input bytes,
\* the last group padded
b64encode(chunk) ==
    [file |-> chunk.file, len |-> 4 * ((chunk.len + 2) \div 3),
     encoding |-> "base64"]

NoPart == [boundary |-> "", content_length |-> 0, transfer_encoding |-> "",
           content_type |-> "", chunk |-> NoChunk]

\* mutant: the length counts the CRLF that ends the part as well
build_part_counts_crlf(boundary, content_type, chunk) ==
    [boundary |-> boundary, content_length |-> chunk.len + 2,
     transfer_encoding |-> "base64", content_type |-> content_type,
     chunk |-> chunk]

\* part = boundary + CRLF + headers + CRLF + chunk + CRLF, with the headers
\* Content-Length: len(chunk), Content-Transfer-Encoding: base64, Content-Type
build_part(boundary, content_type, chunk) ==
    [boundary |-> boundary, content_length |-> chunk.len,
     transfer_encoding |-> "base64", content_type |-> content_type,
     chunk |-> chunk]

\* the messages the client is sent
ResponseStart(status) ==
    [type |-> "http.response.start", status |-> status, more_body |-> TRUE,
     part |-> NoPart, body |-> <<>>, rendering |-> "none"]
ResponsePart(part) ==
    [type |-> "http.response.body", status |-> 0, more_body |-> TRUE,
     part |-> part, body |-> <<>>, rendering |-> "part"]
ResponseEnd ==
    [type |-> "http.response.body", status |-> 0, more_body |-> FALSE,
     part |-> NoPart, body |-> <<>>, rendering |-> "none"]
\* a response returned whole: JSONResponse / PlainTextResponse
Response(status, body, rendering) ==
    [type |-> "response", status |-> status, more_body |-> FALSE,
     part |-> NoPart, body |-> body, rendering |-> rendering]

\* mutant: the generator is drained before anything is sent
response_generator_resumes_eagerly(is_multipart, yielded) == TRUE

\* when response_generator is resumed for its next file:
\* `async for chunk in self.body_iterator` asks for the next response only
\* after the part of the last one was sent; list(response_generator(...))
\* drains the generator
response_generator_resumes(is_multipart, yielded) ==
    IF is_multipart THEN yielded = <<>> ELSE TRUE

\* join_responses / list(...)[0]: what the non-streamed response carries
join_responses_rendering(n, format) ==
    IF n = 1 THEN "single"
    ELSE IF format # "text/csv" THEN "list" ELSE "csv-merged"

\* `if api_key_env := os.environ.get("UNSTRUCTURED_API_KEY")`: a key is
\* required when the variable is set to a non-empty string
api_key_required(env) == env # <<>> /\ env[1] # ""

\* mutant: only a header that is there is compared
api_key_invalid_if_present(env, header) ==
    api_key_required(env) /\ header # <<>> /\ header[1] # env[1]

\* api_key = request.headers.get("unstructured-api-key");
\* `if api_key != api_key_env`: a missing header is None and differs
api_key_invalid(env, header) ==
    api_key_required(env) /\ ~(header # <<>> /\ header[1] = env[1])

\* general_partition, first statement: raise HTTPException(401)
ApiKeyInvalid ==
    /\ fpc = "called"
    /\ api_key_invalid(api_key_env, api_key)
    /\ file_exc' = HTTPException(401)
    /\ fpc' = "raising"
    /\ UNCHANGED <<notFilesVars, apiKeyVars, num_files, output_format,
                   boundary_value, gen_idx, held, sent>>

\* no key is required, or the header carries it: the handler goes on
ApiKeyAccepted ==
    /\ fpc = "called"
    /\ ~api_key_invalid(api_key_env, api_key)
    /\ fpc' = "request"
    /\ UNCHANGED <<notFilesVars, apiKeyVars, num_files, output_format,
                   boundary_value, gen_idx, held, sent, file_exc>>

\* general_partition with Accept: multipart/mixed returns the
\* MultipartMixedResponse; stream_response sends http.response.start with
\* self.status_code (200) before it takes anything from the body iterator
FilesStreamStart ==
    /\ fpc = "request"
    /\ IsMultipart
    /\ sent' = Append(sent, ResponseStart(200))
    /\ fpc' = "streaming"
    /\ UNCHANGED <<notFilesVars, apiKeyVars, num_files, output_format,
                   boundary_value,
                   gen_idx, held, file_exc>>

\* otherwise general_partition runs list(response_generator(False)) itself
FilesCollect ==
    /\ fpc = "request"
    /\ ~IsMultipart
    /\ fpc' = "collecting"
    /\ UNCHANGED <<notFilesVars, apiKeyVars, num_files, output_format,
                   boundary_value,
                   gen_idx, held, sent, file_exc>>

\* response_generator: the next file is put through pipeline_api and its
\* rendered response is yielded
ProcessFile ==
    /\ fpc \in {"streaming", "collecting"}
    /\ gen_idx < num_files
    /\ response_generator_resumes(IsMultipart, held)
    /\ gen_idx' = gen_idx + 1
    /\ \E n \in 1..MaxPayloadLen :
          held' = Append(held, Rendered(gen_idx + 1, n))
    /\ UNCHANGED <<notFilesVars, apiKeyVars, num_files, output_format,
                   boundary_value,
                   fpc, sent, file_exc>>

\* response_generator: pipeline_api raises on the next file; the exception
\* leaves the generator, and with it list(...) or stream_response
ProcessFileFails ==
    /\ fpc \in {"streaming", "collecting"}
    /\ gen_idx < num_files
    /\ response_generator_resumes(IsMultipart, held)
    /\ gen_idx' = gen_idx + 1
    /\ \E t \in EngineErrors :
          file_exc' = pipeline_api_except(EngineException(t))
    /\ held' = <<>>
    /\ fpc' = "raising"
    /\ UNCHANGED <<notFilesVars, apiKeyVars, num_files, output_format,
                   boundary_value,
                   sent>>

\* stream_response: the chunk is encoded, framed and sent
SendPart ==
    /\ fpc = "streaming"
    /\ held # <<>>
    /\ sent' = Append(sent, ResponsePart(
                   build_part(boundary_value, output_format,
                              b64encode(Head(held)))))
    /\ held' = Tail(held)
    /\ UNCHANGED <<notFilesVars, apiKeyVars, num_files, output_format,
                   boundary_value,
                   fpc, gen_idx, file_exc>>

\* stream_response: the body iterator is exhausted, the empty last body
SendEnd ==
    /\ fpc = "streaming"
    /\ held = <<>>
    /\ gen_idx = num_files
    /\ sent' = Append(sent, ResponseEnd)
    /\ fpc' = "done"
    /\ UNCHANGED <<notFilesVars, apiKeyVars, num_files, output_format,
                   boundary_value,
                   gen_idx, held, file_exc>>

\* general_partition returns list(...)[0] or join_responses(list(...))
ReturnResponses ==
    /\ fpc = "collecting"
    /\ gen_idx = num_files
    /\ sent' = Append(sent, Response(200, held,
                   join_responses_rendering(num_files, output_format)))
    /\ held' = <<>>
    /\ fpc' = "done"
    /\ UNCHANGED <<notFilesVars, apiKeyVars, num_files, output_format,
                   boundary_value,
                   gen_idx, file_exc>>

\* the exception of a file: the exception handlers of app.py answer it,
\* unless the response has started, and then the stream ends as it is
FilesRespondError ==
    /\ fpc = "raising"
    /\ sent' = IF sent = <<>>
               THEN <<Response(exception_handler_status(file_exc), <<>>,
                               "detail")>>
               ELSE sent
    /\ fpc' = "failed"
    /\ UNCHANGED <<notFilesVars, apiKeyVars, num_files, output_format,
                   boundary_value,
                   gen_idx, held, file_exc>>

(* ------- events.py: memory check, readiness marking, the probes -------- *)
MaxProcessed == 3

\* MEMORY_THRESHOLD = 0.8, as a percentage
MemoryThresholdPercent == 80
\* int(os.getenv('MAX_REQUESTS', 1))
DefaultMaxRequests == 1

\* get_memory_info: limit is None when memory.max reads 'max'
None == -1

\* the (usage, limit) pairs get_memory_info returns, in MB
EventsReadings == MemoryReadings \cup {[usage |-> 900, limit |-> None]}
NoReading == [usage |-> None, limit |-> None]

\* mutant: the boundary usage = threshold * limit is not low
check_memory_above_threshold(reading) ==
    IF reading.usage = None \/ reading.limit = None
    THEN FALSE
    ELSE reading.usage * 100 > reading.limit * MemoryThresholdPercent

\* mutant: the flag is raised and never cleared
check_memory_never_clears(reading) ==
    \/ ev_memory_low
    \/ /\ reading.usage # None
       /\ reading.limit # None
       /\ reading.usage * 100 >= reading.limit * MemoryThresholdPercent

\* check_memory: is_memory_low = usage >= limit * MEMORY_THRESHOLD, and False
\* when usage or limit is None
check_memory(reading) ==
    IF reading.usage = None \/ reading.limit = None
    THEN FALSE
    ELSE reading.usage * 100 >= reading.limit * MemoryThresholdPercent

\* mutant: the limit is never applied
update_state_ignores_limit(use_limit, processed, limit) == TRUE

\* update_state: (is_ready, is_live) after a request
update_state(use_limit, processed, limit) ==
    IF use_limit
    THEN IF processed >= limit THEN FALSE ELSE TRUE
    ELSE TRUE

\* NotReadyMarkingMiddleware.dispatch: the condition of the 503 answer
not_ready_rejects(use_limit, make_not_ready, ready, live, processing) ==
    \/ (use_limit /\ ~ready)
    \/ ~live
    \/ (make_not_ready /\ processing)

\* ready_healthcheck: 200 READY or 503 NOT_READY
ready_healthcheck(ready, make_not_ready, processing) ==
    IF ready /\ ~(make_not_ready /\ processing) THEN 200 ELSE 503

\* mutant: the live probe follows readiness
live_healthcheck_follows_ready(live, ready) ==
    IF live /\ ready THEN 200 ELSE 503

\* live_healthcheck: 200 LIVE or 503 NOT_LIVE
live_healthcheck(live, ready) ==
    IF live THEN 200 ELSE 503

NoEventsHealth == [status_code |-> 0, status |-> "none"]

\* events.healthcheck: 503 UNHEALTHY with is_memory_low, else 200 HEALTHY
events_healthcheck_response(low) ==
    IF low
    THEN [status_code |-> 503, status |-> "UNHEALTHY"]
    ELSE [status_code |-> 200, status |-> "HEALTHY"]

NoOriginal == [is_ready |-> TRUE, is_live |-> TRUE, is_processing |-> FALSE,
               processed_requests |-> 0]

\* a client sends POST /general/v0/general
EvNewRequest(r) ==
    /\ epc[r] \in {"none", "rejected", "done", "raised"}
    /\ processed_requests < MaxProcessed
    /\ epc' = [epc EXCEPT ![r] = "dispatch"]
    /\ estatus' = [estatus EXCEPT ![r] = 0]
    /\ UNCHANGED <<notEventsVars, mem_usage, ev_memory_low, ev_checked,
                   ev_health, readinessVars, eventsConfig, eorig, mstatus>>

\* mutant: the admission check reads the memory usage itself
EvMemoryCheck_rereads(r) ==
    /\ mstatus' = [mstatus EXCEPT ![r] =
                      IF check_memory(mem_usage) THEN 503 ELSE 200]
    /\ UNCHANGED <<notEventsVars, mem_usage, ev_memory_low, ev_checked,
                   ev_health, readinessVars, eventsConfig, epc, eorig,
                   estatus>>

\* events.MemoryCheckMiddleware.dispatch on a partition request of client r:
\* HTTPException(503) with is_memory_low, else the request goes on to
\* call_next (200 stands for "handed on")
EvMemoryCheck(r) ==
    /\ mstatus' = [mstatus EXCEPT ![r] = IF ev_memory_low THEN 503 ELSE 200]
    /\ UNCHANGED <<notEventsVars, mem_usage, ev_memory_low, ev_checked,
                   ev_health, readinessVars, eventsConfig, epc, eorig,
                   estatus>>

\* NotReadyMarkingMiddleware.dispatch: return Response(..., status_code=503)
NotReadyReject(r) ==
    /\ epc[r] = "dispatch"
    /\ not_ready_rejects(use_max_requests_limit,
                         make_not_ready_when_processing,
                         is_ready, is_live, is_processing)
    /\ epc' = [epc EXCEPT ![r] = "rejected"]
    /\ estatus' = [estatus EXCEPT ![r] = 503]
    /\ UNCHANGED <<notEventsVars, mem_usage, ev_memory_low, ev_checked,
                   ev_health, readinessVars, eventsConfig, eorig, mstatus>>

\* NotReadyMarkingMiddleware.dispatch up to `await call_next(request)`
NotReadyAdmit(r) ==
    /\ epc[r] = "dispatch"
    /\ ~not_ready_rejects(use_max_requests_limit,
                          make_not_ready_when_processing,
                          is_ready, is_live, is_processing)
    /\ eorig' = [eorig EXCEPT ![r] =
                    [is_ready |-> is_ready, is_live |-> is_live,
                     is_processing |-> is_processing,
                     processed_requests |-> processed_requests]]
    /\ is_ready' = IF make_not_ready_when_processing THEN FALSE ELSE is_ready
    /\ is_processing' = TRUE
    /\ epc' = [epc EXCEPT ![r] = "call_next"]
    /\ UNCHANGED <<notEventsVars, mem_usage, ev_memory_low, ev_checked,
                   ev_health, is_live, processed_requests, eventsConfig,
                   estatus, mstatus>>

\* call_next returns 422 or 400: the original_* values are put back, and the
\* finally clause does nothing; the original_* locals end with the call
EvCallNextReturnsInvalid(r) ==
    /\ epc[r] = "call_next"
    /\ \E status \in {400, 422} :
          estatus' = [estatus EXCEPT ![r] = status]
    /\ is_ready' = eorig[r].is_ready
    /\ is_live' = eorig[r].is_live
    /\ is_processing' = eorig[r].is_processing
    /\ processed_requests' = eorig[r].processed_requests
    /\ epc' = [epc EXCEPT ![r] = "done"]
    /\ eorig' = [eorig EXCEPT ![r] = NoOriginal]
    /\ UNCHANGED <<notEventsVars, mem_usage, ev_memory_low, ev_checked,
                   ev_health, eventsConfig, mstatus>>

\* call_next returns another status: processed_requests += 1, and the
\* finally clause clears is_processing and runs update_state()
EvCallNextReturns(r) ==
    /\ epc[r] = "call_next"
    /\ \E status \in {200, 500} :
          estatus' = [estatus EXCEPT ![r] = status]
    /\ processed_requests' = processed_requests + 1
    /\ is_processing' = FALSE
    /\ is_ready' = update_state(use_max_requests_limit, processed_requests',
                                max_requests)
    /\ is_live' = update_state(use_max_requests_limit, processed_requests',
                               max_requests)
    /\ epc' = [epc EXCEPT ![r] = "done"]
    /\ eorig' = [eorig EXCEPT ![r] = NoOriginal]
    /\ UNCHANGED <<notEventsVars, mem_usage, ev_memory_low, ev_checked,
                   ev_health, eventsConfig, mstatus>>

\* call_next raises: `response` was never bound, so the finally clause's
\* getattr(response, ...) raises UnboundLocalError before it clears anything
EvCallNextRaises(r) ==
    /\ epc[r] = "call_next"
    /\ epc' = [epc EXCEPT ![r] = "raised"]
    /\ estatus' = [estatus EXCEPT ![r] = 500]
    /\ eorig' = [eorig EXCEPT ![r] = NoOriginal]
    /\ UNCHANGED <<notEventsVars, mem_usage, ev_memory_low, ev_checked,
                   ev_health, readinessVars, eventsConfig, mstatus>>

\* the environment: the memory reading moves
EvMemoryUsageChanges ==
    /\ \E m \in EventsReadings : mem_usage' = m /\ m # mem_usage
    /\ UNCHANGED <<notEventsVars, eventsVars>>

\* GET on events.healthcheck: check_memory(), then the answer
EventsHealthcheck ==
    /\ ev_checked' = mem_usage
    /\ ev_memory_low' = check_memory(mem_usage)
    /\ ev_health' = events_healthcheck_response(ev_memory_low')
    /\ UNCHANGED <<notEventsVars, mem_usage, readinessVars, eventsConfig,
                   epc, eorig, estatus, mstatus>>

\* mutant: a probe that answers NOT_READY gives up the request in progress
ReadyLiveProbe_clears_processing ==
    /\ ev_checked' = mem_usage
    /\ ev_memory_low' = check_memory(mem_usage)
    /\ is_processing' =
          IF ready_healthcheck(is_ready, make_not_ready_when_processing,
                               is_processing) = 503
          THEN FALSE ELSE is_processing
    /\ UNCHANGED <<notEventsVars, mem_usage, ev_health, is_ready, is_live,
                   processed_requests, eventsConfig, epc, eorig, estatus,
                   mstatus>>

\* ready_healthcheck and live_healthcheck: both answers carry check_memory()
ReadyLiveProbe ==
    /\ ev_checked' = mem_usage
    /\ ev_memory_low' = check_memory(mem_usage)
    /\ UNCHANGED <<notEventsVars, mem_usage, ev_health, readinessVars,
                   eventsConfig, epc, eorig, estatus, mstatus>>

(* ----------------- join_responses: the CSV outer merge ----------------- *)
MaxRows == 2
MaxCsvFiles == 2
NumTexts == 2

\* the columns of convert_to_dataframe(elements).to_csv(index=False); every
\* file's table has them all
CsvColumns == <<"element_id", "text">>

\* the row of an element (element ids are unique within a document)
CsvRow(id, text) == [element_id |-> id, text |-> text]
CsvRows == {CsvRow(id, text) : id \in 1..MaxRows, text \in 1..NumTexts}

\* the rows in the lexicographic order of their cells
CsvRowAt(k) == CsvRow(((k - 1) \div NumTexts) + 1, ((k - 1) % NumTexts) + 1)

\* a file's CSV text: the header line and one line per element, in
\* document order
CsvText(rows) == [header |-> CsvColumns, lines |-> rows]

CsvTexts ==
    {CsvText(rows) : rows \in
        {r \in UNION {[1..n -> CsvRows] : n \in 1..MaxRows} :
            \A i, j \in 1..Len(r) :
               i < j => r[i].element_id < r[j].element_id}}

\* pd.read_csv(io.BytesIO(resp.body)): the header gives the columns, the
\* other lines the rows
read_csv(body) == [columns |-> body.header, rows |-> body.lines]

NoFrame == [columns |-> <<>>, rows |-> <<>>]

CountRows(rows, row) == Cardinality({i \in 1..Len(rows) : rows[i] = row})

\* mutant: an inner join
merge_copies_inner(a, b) == a * b

\* mutant: the tables are put one under the other
merge_copies_concat(a, b) == a + b

\* DataFrame.merge on all the common columns, how="outer": each pair of equal
\* rows of the two sides gives one row, and a row that only one side has is
\* kept as it is
merge_copies(a, b) == IF a > 0 /\ b > 0 THEN a * b ELSE a + b

RECURSIVE merge_rows(_, _, _)
\* the merged rows with the keys CsvRowAt(1..k): an outer merge sorts the
\* join keys lexicographically
merge_rows(left, right, k) ==
    IF k = 0 THEN <<>>
    ELSE merge_rows(left, right, k - 1) \o
         [i \in 1..merge_copies(CountRows(left, CsvRowAt(k)),
                                CountRows(right, CsvRowAt(k))) |->
             CsvRowAt(k)]

\* data.merge(resp_data, how="outer") for frames with the same columns
merge(data, resp_data) ==
    [columns |-> data.columns,
     rows |-> merge_rows(data.rows, resp_data.rows, MaxRows * NumTexts)]

\* data = pd.read_csv(io.BytesIO(responses[0].body))
JoinResponsesReadFirst ==
    /\ csv_pc = "join"
    /\ csv_data' = read_csv(csv_responses[1])
    /\ csv_idx' = 1
    /\ csv_pc' = "merge"
    /\ UNCHANGED <<notCsvVars, csv_responses>>

\* for resp in responses[1:]: data = data.merge(read_csv(resp.body), "outer")
JoinResponsesMerge ==
    /\ csv_pc = "merge"
    /\ csv_idx < Len(csv_responses)
    /\ csv_data' = merge(csv_data, read_csv(csv_responses[csv_idx + 1]))
    /\ csv_idx' = csv_idx + 1
    /\ UNCHANGED <<notCsvVars, csv_responses, csv_pc>>

\* return PlainTextResponse(data.to_csv(index=False))
JoinResponsesReturn ==
    /\ csv_pc = "merge"
    /\ csv_idx = Len(csv_responses)
    /\ csv_pc' = "done"
    /\ UNCHANGED <<notCsvVars, csv_responses, csv_data, csv_idx>>

(* ------------- memory_protection.ChipperMemoryProtection --------------- *)
\* the requests that may reach `with ChipperMemoryProtection():` together,
\* each in its own thread of the server's pool
ChipperRequests == 1..(MaxClients + 1)

\* a request with hi_res_model_name=chipper comes to the with statement
ChipperArrive(r) ==
    /\ chipper_pc[r] \in {"none", "rejected", "exited"}
    /\ chipper_pc' = [chipper_pc EXCEPT ![r] = "enter"]
    /\ UNCHANGED <<notChipperVars, is_chipper_processing>>

\* mutant: the rejected request runs __exit__ too and clears the flag
ChipperEnterCheck_reject_releases(r) ==
    /\ chipper_pc[r] = "enter"
    /\ chipper_pc' = [chipper_pc EXCEPT ![r] =
                         IF is_chipper_processing
                         THEN "rejected" ELSE "check_passed"]
    /\ is_chipper_processing' = FALSE
    /\ UNCHANGED notChipperVars

\* __enter__: `if is_chipper_processing: raise HTTPException(503)`; the
\* global is read here and written by a later statement
ChipperEnterCheck(r) ==
    /\ chipper_pc[r] = "enter"
    /\ chipper_pc' = [chipper_pc EXCEPT ![r] =
                         IF is_chipper_processing
                         THEN "rejected" ELSE "check_passed"]
    /\ UNCHANGED <<notChipperVars, is_chipper_processing>>

\* __enter__: is_chipper_processing = True, and the body of the with starts
ChipperEnterSet(r) ==
    /\ chipper_pc[r] = "check_passed"
    /\ is_chipper_processing' = TRUE
    /\ chipper_pc' = [chipper_pc EXCEPT ![r] = "inside"]
    /\ UNCHANGED notChipperVars

\* __exit__: is_chipper_processing = False, whatever the body did
ChipperExit(r) ==
    /\ chipper_pc[r] = "inside"
    /\ is_chipper_processing' = FALSE
    /\ chipper_pc' = [chipper_pc EXCEPT ![r] = "exited"]
    /\ UNCHANGED notChipperVars

(* --------------------------- specifications ---------------------------- *)
\* memory_protection.py as it is after import
IdleChipper ==
    /\ is_chipper_processing = FALSE
    /\ chipper_pc = [r \in ChipperRequests |-> "none"]

\* no join_responses is under way
IdleCsv ==
    /\ csv_responses = <<>>
    /\ csv_data = NoFrame
    /\ csv_idx = 0
    /\ csv_pc = "none"

\* events.py as it is after import, with the defaults of its configuration
IdleEvents ==
    /\ ev_memory_low = FALSE
    /\ ev_checked = NoReading
    /\ ev_health = NoEventsHealth
    /\ is_ready = TRUE
    /\ is_live = TRUE
    /\ is_processing = FALSE
    /\ processed_requests = 0
    /\ use_max_requests_limit = FALSE
    /\ make_not_ready_when_processing = FALSE
    /\ max_requests = DefaultMaxRequests
    /\ epc = [r \in Clients |-> "none"]
    /\ eorig = [r \in Clients |-> NoOriginal]
    /\ estatus = [r \in Clients |-> 0]
    /\ mstatus = [r \in Clients |-> 0]

\* no request with files is under way
IdleFiles ==
    /\ num_files = 1
    /\ output_format = "application/json"
    /\ boundary_value = ""
    /\ fpc = "none"
    /\ gen_idx = 0
    /\ held = <<>>
    /\ sent = <<>>
    /\ file_exc = NoExc
    /\ api_key_env = <<>>
    /\ api_key = <<>>

InitAdmission ==
    /\ is_memory_low = FALSE
    /\ health = NoHealth
    /\ active_requests = 0
    /\ rpc = [r \in Clients |-> "none"]
    /\ rstatus = [r \in Clients |-> 0]
    /\ mem_usage \in MemoryReadings

InitDispatch ==
    /\ pdf_pages \in {Pages(n) : n \in 1..MaxPages}
    /\ \E env \in {<<>>} \cup {<<n>> : n \in 2..MaxSplitSize} :
          pages_per_pdf = Getenv(env, DefaultSplitSize)
    /\ \E env \in {<<>>, <<1>>} :
          thread_count = Getenv(env, DefaultThreadCount)
    /\ \E env \in {<<>>} \cup {<<n>> : n \in 0..(DefaultRetryAttempts - 1)} :
          max_tries = call_api_max_tries(env)
    /\ request_url \in {<<>>, <<"unused">>}
    /\ starting_page_number \in {DefaultStartingPage, MaxStartingPage}
    /\ accept_type \in {"application/json", "multipart/mixed"}
    /\ pc = "request"
    /\ offset = 0
    /\ splits = <<>>
    /\ fstate = <<>>
    /\ calls = <<>>
    /\ sent_page = <<>>
    /\ fresult = <<>>
    /\ fexc = <<>>
    /\ collected = <<>>
    /\ results = <<>>
    /\ outcome = [kind |-> "none", elements |-> <<>>, exc |-> NoExc]
    /\ first_failed = 0
    /\ out_of_order = FALSE
    /\ response_started = FALSE
    /\ http_status = 0
    /\ http_body = <<>>

Init ==
    /\ InitDispatch
    /\ IdleFiles
    /\ IdleChipper
    /\ IdleCsv
    /\ IdleEvents
    /\ health = NoHealth
    /\ is_memory_low = FALSE
    /\ active_requests = 0
    /\ rpc = [r \in Clients |-> "none"]
    /\ rstatus = [r \in Clients |-> 0]
    /\ mem_usage = [usage |-> 700, limit |-> 1000]

Next ==
    \/ GeneralPartition
    \/ StreamResponseStart
    \/ PartitionLocally
    \/ PartitionLocallyFails
    \/ StartMap
    \/ SubmitSplit
    \/ MapSubmitted
    \/ \E k \in Futures : StartWork(k)
    \/ \E k \in Futures : StartWorkNoUrl(k)
    \/ \E k \in Futures : CallApiOk(k)
    \/ \E k \in Futures : CallApiError(k)
    \/ \E k \in Futures : CallApiRequestException(k)
    \/ CollectResult
    \/ CollectException
    \/ ReturnResults
    \/ RespondElements
    \/ RespondError

Spec == Init /\ [][Next]_vars

InitAdmissionOnly ==
    /\ InitAdmission
    /\ IdleFiles
    /\ IdleChipper
    /\ IdleCsv
    /\ IdleEvents
    /\ pdf_pages = Pages(1)
    /\ pages_per_pdf = DefaultSplitSize
    /\ thread_count = DefaultThreadCount
    /\ max_tries = call_api_max_tries(<<>>)
    /\ request_url = <<>>
    /\ starting_page_number = DefaultStartingPage
    /\ accept_type = "application/json"
    /\ pc = "none"
    /\ offset = 0
    /\ splits = <<>>
    /\ fstate = <<>>
    /\ calls = <<>>
    /\ sent_page = <<>>
    /\ fresult = <<>>
    /\ fexc = <<>>
    /\ collected = <<>>
    /\ results = <<>>
    /\ outcome = [kind |-> "none", elements |-> <<>>, exc |-> NoExc]
    /\ first_failed = 0
    /\ out_of_order = FALSE
    /\ response_started = FALSE
    /\ http_status = 0
    /\ http_body = <<>>

NextAdmission ==
    \/ \E r \in Clients : NewRequest(r)
    \/ \E r \in Clients : DispatchReject(r)
    \/ \E r \in Clients : DispatchAdmit(r)
    \/ \E r \in Clients : CallNextReturns(r)
    \/ \E r \in Clients : CallNextRaises(r)
    \/ MemoryUsageChanges
    \/ Healthcheck
    \/ EventsHealthcheck

SpecAdmission == InitAdmissionOnly /\ [][NextAdmission]_vars

\* no dispatch is under way
IdleDispatch ==
    /\ pdf_pages = Pages(1)
    /\ pages_per_pdf = DefaultSplitSize
    /\ thread_count = DefaultThreadCount
    /\ max_tries = call_api_max_tries(<<>>)
    /\ request_url = <<>>
    /\ starting_page_number = DefaultStartingPage
    /\ pc = "none"
    /\ offset = 0
    /\ splits = <<>>
    /\ fstate = <<>>
    /\ calls = <<>>
    /\ sent_page = <<>>
    /\ fresult = <<>>
    /\ fexc = <<>>
    /\ collected = <<>>
    /\ results = <<>>
    /\ outcome = [kind |-> "none", elements |-> <<>>, exc |-> NoExc]
    /\ first_failed = 0
    /\ out_of_order = FALSE
    /\ response_started = FALSE
    /\ http_status = 0
    /\ http_body = <<>>

IdleAdmission ==
    /\ is_memory_low = FALSE
    /\ health = NoHealth
    /\ active_requests = 0
    /\ rpc = [r \in Clients |-> "none"]
    /\ rstatus = [r \in Clients |-> 0]
    /\ mem_usage = [usage |-> 700, limit |-> 1000]

\* the dispatch of one file with the remote endpoint configured, answered as
\* JSON, with one retry allowed (UNSTRUCTURED_PARALLEL_RETRY_ATTEMPTS=1)
InitPool ==
    /\ pdf_pages \in {Pages(n) : n \in 1..MaxPages}
    /\ \E env \in {<<>>} \cup {<<n>> : n \in 2..MaxSplitSize} :
          pages_per_pdf = Getenv(env, DefaultSplitSize)
    /\ \E env \in {<<>>, <<1>>} :
          thread_count = Getenv(env, DefaultThreadCount)
    /\ max_tries = call_api_max_tries(<<1>>)
    /\ request_url = <<"unused">>
    /\ starting_page_number \in {DefaultStartingPage, MaxStartingPage}
    /\ accept_type = "application/json"
    /\ pc = "request"
    /\ offset = 0
    /\ splits = <<>>
    /\ fstate = <<>>
    /\ calls = <<>>
    /\ sent_page = <<>>
    /\ fresult = <<>>
    /\ fexc = <<>>
    /\ collected = <<>>
    /\ results = <<>>
    /\ outcome = [kind |-> "none", elements |-> <<>>, exc |-> NoExc]
    /\ first_failed = 0
    /\ out_of_order = FALSE
    /\ response_started = FALSE
    /\ http_status = 0
    /\ http_body = <<>>
    /\ IdleAdmission
    /\ IdleFiles
    /\ IdleChipper
    /\ IdleCsv
    /\ IdleEvents

NextPool ==
    \/ GeneralPartition
    \/ PartitionLocally
    \/ PartitionLocallyFails
    \/ StartMap
    \/ SubmitSplit
    \/ MapSubmitted
    \/ \E k \in Futures : StartWork(k)
    \/ \E k \in Futures : CallApiOk(k)
    \/ \E k \in Futures : CallApiError(k)
    \/ \E k \in Futures : CallApiRequestException(k)
    \/ CollectResult
    \/ CollectException
    \/ ReturnResults
    \/ RespondElements
    \/ RespondError

SpecPool == InitPool /\ [][NextPool]_vars

\* a dispatch to the remote API whose calls fail and are tried again: the
\* retry attempts of the environment vary, the first page number does not
InitRetry ==
    /\ pdf_pages \in {Pages(n) : n \in 1..MaxPages}
    /\ \E env \in {<<>>} \cup {<<n>> : n \in 2..MaxSplitSize} :
          pages_per_pdf = Getenv(env, DefaultSplitSize)
    /\ \E env \in {<<>>, <<1>>} :
          thread_count = Getenv(env, DefaultThreadCount)
    /\ \E env \in {<<>>} \cup {<<n>> : n \in 0..(DefaultRetryAttempts - 1)} :
          max_tries = call_api_max_tries(env)
    /\ request_url = <<"unused">>
    /\ starting_page_number = DefaultStartingPage
    /\ accept_type = "application/json"
    /\ pc = "request"
    /\ offset = 0
    /\ splits = <<>>
    /\ fstate = <<>>
    /\ calls = <<>>
    /\ sent_page = <<>>
    /\ fresult = <<>>
    /\ fexc = <<>>
    /\ collected = <<>>
    /\ results = <<>>
    /\ outcome = [kind |-> "none", elements |-> <<>>, exc |-> NoExc]
    /\ first_failed = 0
    /\ out_of_order = FALSE
    /\ response_started = FALSE
    /\ http_status = 0
    /\ http_body = <<>>
    /\ IdleAdmission
    /\ IdleFiles
    /\ IdleChipper
    /\ IdleCsv
    /\ IdleEvents

SpecRetry == InitRetry /\ [][NextPool]_vars

\* the dispatches followed to their end: the default retry attempts with one
\* pool thread, fewer attempts with any pool
InitRetryLive ==
    /\ InitRetry
    /\ (thread_count = 1 \/ max_tries < call_api_max_tries(<<>>))

\* the same dispatch when every step that can be taken is taken in the end:
\* the pool's threads run, each remote call returns, the iterator goes on
SpecRetryLive == InitRetryLive /\ [][NextPool]_vars /\ WF_vars(NextPool)

\* a dispatch in parallel mode with UNSTRUCTURED_PARALLEL_MODE_URL unset
InitNoUrl ==
    /\ InitDispatch
    /\ request_url = <<>>
    /\ IdleAdmission
    /\ IdleFiles
    /\ IdleChipper
    /\ IdleCsv
    /\ IdleEvents

NextNoUrl ==
    \/ GeneralPartition
    \/ StreamResponseStart
    \/ PartitionLocally
    \/ PartitionLocallyFails
    \/ StartMap
    \/ SubmitSplit
    \/ MapSubmitted
    \/ \E k \in Futures : StartWorkNoUrl(k)
    \/ CollectException
    \/ RespondElements
    \/ RespondError

SpecNoUrl == InitNoUrl /\ [][NextNoUrl]_vars

\* a dispatch with UNSTRUCTURED_PARALLEL_MODE_SPLIT_SIZE set to 0 or below:
\* int() accepts it and nothing checks it
BadSplitSizes == {0, -1}

InitBadSplit ==
    /\ pdf_pages \in {Pages(n) : n \in 1..MaxPages}
    /\ \E env \in {<<n>> : n \in BadSplitSizes} :
          pages_per_pdf = Getenv(env, DefaultSplitSize)
    /\ thread_count = DefaultThreadCount
    /\ max_tries = call_api_max_tries(<<>>)
    /\ request_url = <<"unused">>
    /\ starting_page_number = DefaultStartingPage
    /\ accept_type = "application/json"
    /\ pc = "request"
    /\ offset = 0
    /\ splits = <<>>
    /\ fstate = <<>>
    /\ calls = <<>>
    /\ sent_page = <<>>
    /\ fresult = <<>>
    /\ fexc = <<>>
    /\ collected = <<>>
    /\ results = <<>>
    /\ outcome = [kind |-> "none", elements |-> <<>>, exc |-> NoExc]
    /\ first_failed = 0
    /\ out_of_order = FALSE
    /\ response_started = FALSE
    /\ http_status = 0
    /\ http_body = <<>>
    /\ IdleAdmission
    /\ IdleFiles
    /\ IdleChipper
    /\ IdleCsv
    /\ IdleEvents

\* the generator of get_pdf_splits never ends, so executor.map never gets to
\* its results: only the steps up to there and those of the pool can happen
NextBadSplit ==
    \/ GeneralPartition
    \/ StartMap
    \/ SubmitSplit
    \/ \E k \in Futures : StartWork(k)
    \/ \E k \in Futures : CallApiOk(k)
    \/ \E k \in Futures : CallApiError(k)
    \/ \E k \in Futures : CallApiRequestException(k)

SpecBadSplit == InitBadSplit /\ [][NextBadSplit]_vars

\* one request with 1..MaxFiles files
InitFiles ==
    /\ num_files \in 1..MaxFiles
    /\ output_format \in OutputFormats
    /\ accept_type \in {"application/json", "multipart/mixed"}
    /\ boundary_value \in BoundaryTokens
    /\ fpc = "request"
    /\ gen_idx = 0
    /\ held = <<>>
    /\ sent = <<>>
    /\ file_exc = NoExc
    /\ api_key_env = <<>>
    /\ api_key = <<>>
    /\ IdleDispatch
    /\ IdleAdmission
    /\ IdleEvents
    /\ IdleChipper
    /\ IdleCsv

NextFiles ==
    \/ FilesStreamStart
    \/ FilesCollect
    \/ ProcessFile
    \/ ProcessFileFails
    \/ SendPart
    \/ SendEnd
    \/ ReturnResponses
    \/ FilesRespondError

SpecFiles == InitFiles /\ [][NextFiles]_vars

\* events.py under each configuration of its environment variables
InitEvents ==
    /\ ev_memory_low = FALSE
    /\ ev_checked = NoReading
    /\ ev_health = NoEventsHealth
    /\ is_ready = TRUE
    /\ is_live = TRUE
    /\ is_processing = FALSE
    /\ processed_requests = 0
    /\ use_max_requests_limit \in BOOLEAN
    /\ make_not_ready_when_processing \in BOOLEAN
    /\ max_requests \in DefaultMaxRequests..(MaxProcessed - 1)
    /\ epc = [r \in Clients |-> "none"]
    /\ eorig = [r \in Clients |-> NoOriginal]
    /\ estatus = [r \in Clients |-> 0]
    /\ mstatus = [r \in Clients |-> 0]
    /\ IdleAdmission
    /\ IdleDispatch
    /\ accept_type = "application/json"
    /\ IdleFiles
    /\ IdleChipper
    /\ IdleCsv

NextEvents ==
    \/ \E r \in Clients : EvNewRequest(r)
    \/ \E r \in Clients : NotReadyReject(r)
    \/ \E r \in Clients : NotReadyAdmit(r)
    \/ \E r \in Clients : EvCallNextReturnsInvalid(r)
    \/ \E r \in Clients : EvCallNextReturns(r)
    \/ \E r \in Clients : EvCallNextRaises(r)

SpecEvents == InitEvents /\ [][NextEvents]_vars

\* the memory check of events.py, its middleware and the probes
InitEventsMemory ==
    /\ IdleEvents
    /\ mem_usage \in EventsReadings
    /\ is_memory_low = FALSE
    /\ health = NoHealth
    /\ active_requests = 0
    /\ rpc = [r \in Clients |-> "none"]
    /\ rstatus = [r \in Clients |-> 0]
    /\ IdleDispatch
    /\ accept_type = "application/json"
    /\ IdleFiles
    /\ IdleChipper
    /\ IdleCsv

NextEventsMemory ==
    \/ \E r \in Clients : EvMemoryCheck(r)
    \/ EvMemoryUsageChanges
    \/ EventsHealthcheck
    \/ ReadyLiveProbe

SpecEventsMemory == InitEventsMemory /\ [][NextEventsMemory]_vars

\* the probes called while requests are inside the middlewares: events.py in
\* the stricter mode with its requests, and app.py with 0..MaxClients
\* requests already inside call_next (SpecAdmission has their steps)
InitProbes ==
    /\ ev_memory_low = FALSE
    /\ ev_checked = NoReading
    /\ ev_health = NoEventsHealth
    /\ is_ready = TRUE
    /\ is_live = TRUE
    /\ is_processing = FALSE
    /\ processed_requests = 0
    /\ use_max_requests_limit \in BOOLEAN
    /\ make_not_ready_when_processing = TRUE
    /\ max_requests = DefaultMaxRequests
    /\ epc = [r \in Clients |-> "none"]
    /\ eorig = [r \in Clients |-> NoOriginal]
    /\ estatus = [r \in Clients |-> 0]
    /\ mstatus = [r \in Clients |-> 0]
    /\ active_requests \in 0..MaxClients
    /\ rpc = [r \in Clients |->
                IF r <= active_requests THEN "call_next" ELSE "none"]
    /\ rstatus = [r \in Clients |-> 0]
    /\ is_memory_low = FALSE
    /\ health = NoHealth
    /\ mem_usage \in {m \in MemoryReadings : m.usage # 800}
    /\ IdleDispatch
    /\ accept_type = "application/json"
    /\ IdleFiles
    /\ IdleChipper
    /\ IdleCsv

NextProbes ==
    \/ NextEvents
    \/ Healthcheck
    \/ EventsHealthcheck
    \/ ReadyLiveProbe

SpecProbes == InitProbes /\ [][NextProbes]_vars

\* general_partition from its first statement, with and without a key
\* configured and sent
ApiKeys == {"", "secret", "wrong"}

InitApiKey ==
    /\ api_key_env \in {<<>>, <<"">>, <<"secret">>}
    /\ api_key \in {<<>>} \cup {<<k>> : k \in ApiKeys}
    /\ num_files \in 1..MaxFiles
    /\ output_format = "application/json"
    /\ accept_type \in {"application/json", "multipart/mixed"}
    /\ boundary_value \in BoundaryTokens
    /\ fpc = "called"
    /\ gen_idx = 0
    /\ held = <<>>
    /\ sent = <<>>
    /\ file_exc = NoExc
    /\ IdleDispatch
    /\ IdleAdmission
    /\ IdleEvents
    /\ IdleChipper
    /\ IdleCsv

NextApiKey ==
    \/ ApiKeyInvalid
    \/ ApiKeyAccepted
    \/ NextFiles

SpecApiKey == InitApiKey /\ [][NextApiKey]_vars

\* join_responses on the CSV responses of 2..MaxCsvFiles files
InitCsv ==
    /\ csv_responses \in UNION {[1..n -> CsvTexts] : n \in 2..MaxCsvFiles}
    /\ csv_data = NoFrame
    /\ csv_idx = 0
    /\ csv_pc = "join"
    /\ IdleDispatch
    /\ accept_type = "application/json"
    /\ IdleAdmission
    /\ IdleFiles
    /\ IdleEvents
    /\ IdleChipper

NextCsv ==
    \/ JoinResponsesReadFirst
    \/ JoinResponsesMerge
    \/ JoinResponsesReturn

SpecCsv == InitCsv /\ [][NextCsv]_vars

\* requests with the Chipper model, each handled in a thread of its own
InitChipper ==
    /\ IdleChipper
    /\ IdleCsv
    /\ IdleDispatch
    /\ accept_type = "application/json"
    /\ IdleAdmission
    /\ IdleFiles
    /\ IdleEvents

NextChipper ==
    \/ \E r \in ChipperRequests : ChipperArrive(r)
    \/ \E r \in ChipperRequests : ChipperEnterCheck(r)
    \/ \E r \in ChipperRequests : ChipperEnterSet(r)
    \/ \E r \in ChipperRequests : ChipperExit(r)

SpecChipper == InitChipper /\ [][NextChipper]_vars

\* check_memory() runs only inside the probe handlers: the liveness of the
\* memory gate is that of the probes, which the platform keeps calling
SpecEventsMemoryLive ==
    /\ InitEventsMemory
    /\ [][NextEventsMemory]_vars
    /\ WF_vars(EventsHealthcheck)
    /\ WF_vars(ReadyLiveProbe)


(* ------------------------------- claims -------------------------------- *)
RECURSIVE ConcatResults(_)
\* the results of futures 1..n, one after the other
ConcatResults(n) == IF n = 0 THEN <<>> ELSE ConcatResults(n - 1) \o fresult[n]

CeilDiv(a, b) == (a + b - 1) \div b

Succeeded(k) == fstate[k] = "FINISHED" /\ fexc[k] = NoExc

\* C1: the merged list is the chunks' results in chunk-index order whatever
\* the order the calls complete in, so its page numbers never decrease
C1_ChunkIndexOrder ==
    /\ results = ConcatResults(Len(collected))
    /\ \A i \in 1..Len(collected) : collected[i] = i
    /\ (outcome.kind = "return" /\ IsChunked) =>
          outcome.elements = ConcatResults(Len(splits))
    /\ \A i, j \in 1..Len(results) :
          i < j => results[i].page_number <= results[j].page_number

C1_Witness ==
    /\ pc = "responded"
    /\ outcome.kind = "return"
    /\ Len(splits) >= 2
    /\ out_of_order
    /\ http_body = ConcatResults(Len(splits))

\* C2: the element on local page p of the chunk at offset o has page number
\* p + o, shifted by the request's starting page number minus 1, in the
\* chunk's result and in the merged output
C2_PageOffset ==
    /\ \A k \in Futures : Succeeded(k) =>
          \A p \in 1..Len(fresult[k]) :
             fresult[k][p].page_number =
                p + splits[k].offset + (starting_page_number - 1)
    /\ (outcome.kind = "return" /\ IsChunked) =>
          \A k \in 1..Len(splits) : \A p \in 1..Len(splits[k].pages) :
             LET at == Len(ConcatResults(k - 1)) + p
             IN  /\ at <= Len(outcome.elements)
                 /\ outcome.elements[at].element_id = splits[k].pages[p]
                 /\ outcome.elements[at].page_number =
                       p + splits[k].offset + (starting_page_number - 1)

C2_Witness ==
    /\ pc = "responded"
    /\ outcome.kind = "return"
    /\ starting_page_number > 1
    /\ Len(pdf_pages) = 3
    /\ pages_per_pdf = 2
    /\ http_body[3].page_number = 1 + 2 + (starting_page_number - 1)

\* C3: for P >= 1 pages and chunk size C >= 1 the splitter yields ceil(P/C)
\* chunks, chunk k holding the pages [k*C, min((k+1)*C, P)) at offset k*C
C3_ExpectedSplit(k) ==
    LET lo == k * pages_per_pdf
        hi == Min((k + 1) * pages_per_pdf, Len(pdf_pages))
    IN  [pages |-> [i \in 1..(hi - lo) |-> lo + i - 1], offset |-> lo]

RECURSIVE ConcatPages(_)
\* the pages of splits 1..n, one after the other
ConcatPages(n) == IF n = 0 THEN <<>> ELSE ConcatPages(n - 1) \o splits[n].pages

C3_Splits ==
    (pages_per_pdf >= 1 /\ Len(pdf_pages) >= 1) =>
       /\ \A k \in 1..Len(splits) : splits[k] = C3_ExpectedSplit(k - 1)
       /\ Len(splits) <= CeilDiv(Len(pdf_pages), pages_per_pdf)
       /\ (IsChunked /\ pc \in {"iterate", "raising", "returned", "responded"})
             => /\ Len(splits) = CeilDiv(Len(pdf_pages), pages_per_pdf)
                /\ ConcatPages(Len(splits)) = pdf_pages

C3_Witness ==
    /\ pc = "iterate"
    /\ Len(pdf_pages) = 3
    /\ pages_per_pdf = 2
    /\ splits = << [pages |-> <<0, 1>>, offset |-> 0],
                   [pages |-> <<2>>, offset |-> 2] >>

\* C4: a call answered 500 N times and then 200 succeeds with exactly N + 1
\* invocations when max_tries > N; a call answered 500 max_tries times fails
\* with exactly max_tries invocations; unconfigured, max_tries is 3
All500(h) == \A i \in 1..Len(h) : h[i] = 500

DefaultMaxTriesIs3 == call_api_max_tries(<<>>) = 3

C4_RetryBound ==
    /\ DefaultMaxTriesIs3
    /\ \A k \in Futures :
          LET h == calls[k]
              n == Len(h)
          IN  /\ n <= max_tries
              /\ (fstate[k] = "RUNNING") => (All500(h) /\ n < max_tries)
              /\ ~(fstate[k] = "FINISHED" /\ request_url # <<>>
                      /\ All500(h) /\ n < max_tries)
              /\ (All500(h) /\ n = max_tries) =>
                    (fstate[k] = "FINISHED" /\ fexc[k] = HTTPException(500))
              /\ (n >= 1 /\ h[n] = 200) =>
                    (All500(SubSeq(h, 1, n - 1)) /\ Succeeded(k))

C4_Witness ==
    /\ max_tries = 3
    /\ \E k, j \in Futures :
          /\ calls[k] = <<500, 500, 200>> /\ Succeeded(k)
          /\ calls[j] = <<500, 500, 500>> /\ fexc[j] = HTTPException(500)

\* C5: a call answered with a client error (400..499) is not repeated: it is
\* the call's last attempt, and the only one when it is the first answer
ClientErrorStatuses == 400..499

\* backoff gives up on every client error at the first try, whatever max_tries
GivesUpOnClientErrors ==
    \A c \in ClientErrorStatuses : \A m \in 1..(DefaultRetryAttempts + 1) :
       call_api_gives_up(call_api_raise(c), 1, m)

C5_NoRetryOnClientError ==
    /\ GivesUpOnClientErrors
    /\ \A k \in Futures : \A i \in 1..Len(calls[k]) :
          calls[k][i] \in ClientErrorStatuses =>
             /\ i = Len(calls[k])
             /\ fstate[k] = "FINISHED"
             /\ fexc[k] = HTTPException(calls[k][i])

C5_Witness ==
    /\ max_tries = 3
    /\ \E k \in Futures :
          /\ calls[k] = <<400>>
          /\ fstate[k] = "FINISHED"
          /\ fexc[k] = HTTPException(400)
    /\ pc = "responded"

\* C6: a partition request that finds is_memory_low true at the admission
\* check is answered 503, is not handed on to call_next, and leaves
\* active_requests as it was
C6_LowMemoryRejects ==
    [][\A r \in Clients :
          (rpc[r] = "dispatch" /\ is_memory_low /\ rpc'[r] # rpc[r]) =>
             /\ rpc'[r] = "rejected"
             /\ rstatus'[r] = 503
             /\ active_requests' = active_requests]_vars

C6_Witness ==
    /\ is_memory_low
    /\ \E r, q \in Clients :
          /\ rpc[r] = "rejected" /\ rstatus[r] = 503
          /\ rpc[q] = "call_next"
    /\ active_requests = 1

\* C7: active_requests is the number of admitted requests that have not
\* completed, whether their handler returns or raises
InFlight == {r \in Clients : rpc[r] = "call_next"}

C7_ActiveRequestsCount ==
    /\ active_requests = Cardinality(InFlight)
    /\ active_requests >= 0
    /\ (InFlight = {}) => active_requests = 0

C7_Witness ==
    /\ \E r, q \in Clients : rpc[r] = "raised" /\ rpc[q] = "call_next"
    /\ active_requests = 1

\* C8: (the claim) the error a chunked dispatch raises is the error of the
\* chunk whose failure completed first
C8_FirstCompletedFailureSurfaces ==
    (outcome.kind = "raise" /\ IsChunked) =>
       outcome.exc = fexc[first_failed]

\* C9: a dispatch with a failed chunk returns no elements: the caller and the
\* client get the merged result of all chunks or none of it
C9_AllOrNothing ==
    /\ (Failed # {}) => (outcome.kind # "return" /\ http_body = <<>>)
    /\ (outcome.kind = "raise") =>
          (outcome.elements = <<>> /\ http_body = <<>>)
    /\ (outcome.kind = "return" /\ IsChunked) =>
          /\ \A k \in 1..Len(splits) : Succeeded(k)
          /\ outcome.elements = ConcatResults(Len(splits))
          /\ Len(outcome.elements) = Len(pdf_pages)
    /\ http_body \in {<<>>, outcome.elements}

C9_Witness ==
    /\ pc = "responded"
    /\ outcome.kind = "raise"
    /\ results # <<>>
    /\ \E k \in Futures : Succeeded(k) /\ k > Len(collected)
    /\ http_body = <<>>

\* C10: (the claim) when a chunk call gives up, the dispatcher raises and the
\* client is answered with the status of that call's last failed attempt
GaveUp(k) == k \in Futures /\ fexc[k].type = "HTTPException" /\ calls[k] # <<>>

C10_StatusPreserved ==
    (pc = "responded" /\ outcome.kind = "raise" /\ GaveUp(Len(collected) + 1)) =>
       LET h == calls[Len(collected) + 1]
       IN  /\ outcome.exc = HTTPException(h[Len(h)])
           /\ http_status = h[Len(h)]

\* C11: (the claim) a call that failed for good with a transport failure or a
\* timeout has been repeated like a 5xx answer: it used all max_tries attempts
TransportFailure == 0

C11_TransportFailureRetried ==
    \A k \in Futures :
       (fstate[k] = "FINISHED" /\ fexc[k] = RequestException) =>
          Len(calls[k]) = max_tries

\* C11 (amended): a transport failure or timeout is never repeated: it is the
\* call's last attempt and the call fails with it, whatever max_tries is
C11_TransportFailureNotRetried ==
    \A k \in Futures : \A i \in 1..Len(calls[k]) :
       calls[k][i] = TransportFailure =>
          /\ i = Len(calls[k])
          /\ fstate[k] = "FINISHED"
          /\ fexc[k] = RequestException

C11_Witness ==
    /\ max_tries = 3
    /\ \E k, j \in Futures :
          /\ calls[k] = <<TransportFailure>>
          /\ fexc[k] = RequestException
          /\ calls[j] = <<500, TransportFailure>>
          /\ fexc[j] = RequestException
    /\ pc = "responded"
    /\ http_status = 500

\* the parts sent so far
PartIndexes == {i \in 1..Len(sent) : sent[i].rendering = "part"}

\* C12: a multipart/mixed response for N files whose stream ran to its end is
\* the start, N parts and one empty last body; every part carries the
\* response's boundary token and a Content-Length equal to the length of its
\* base64 body
C12_MultipartFraming ==
    IsMultipart =>
       /\ \A i \in PartIndexes :
             /\ sent[i].part.boundary = boundary_value
             /\ sent[i].part.chunk.encoding = "base64"
             /\ sent[i].part.chunk.len % 4 = 0
             /\ sent[i].part.content_length = sent[i].part.chunk.len
             /\ sent[i].part.transfer_encoding = "base64"
       /\ \A i \in 1..Len(sent) :
             sent[i] = ResponseEnd => (i = Len(sent) /\ fpc = "done")
       /\ (fpc = "done") =>
             /\ Len(sent) = num_files + 2
             /\ sent[1] = ResponseStart(200)
             /\ PartIndexes = 2..(num_files + 1)
             /\ sent[num_files + 2] = ResponseEnd

C12_Witness ==
    /\ IsMultipart
    /\ fpc = "done"
    /\ num_files = 3
    /\ Len(sent) = 5
    /\ sent[2].part.content_length = 4
    /\ sent[4].part.content_length = 8
    /\ sent[5] = ResponseEnd

\* C13: in a multipart/mixed response the parts go out in file order, and a
\* file is taken up only after the part of the file before it was sent: at
\* most one file's response is held
C13_LazyInOrder ==
    IsMultipart =>
       /\ Len(held) <= 1
       /\ gen_idx <= Cardinality(PartIndexes) + 1
       /\ \A i \in PartIndexes : sent[i].part.chunk.file = i - 1
       /\ \A i \in 1..Len(held) :
             held[i].file = Cardinality(PartIndexes) + i

C13_Witness ==
    /\ IsMultipart
    /\ num_files = 3
    /\ gen_idx = 3
    /\ Len(held) = 1
    /\ Cardinality(PartIndexes) = 2

\* C14: (the claim) a request that ends in an error is answered with the
\* error's status and a JSON body with `detail`; no success status is sent
C14_ErrorStatusAnswered ==
    (fpc = "failed") =>
       /\ \A i \in 1..Len(sent) : sent[i].status # 200
       /\ \E i \in 1..Len(sent) :
             /\ sent[i].status = exception_handler_status(file_exc)
             /\ sent[i].rendering = "detail"

\* C15: (the claim) once file i has failed no later file is taken up, the
\* request fails with that error, and nothing of the files before i has gone
\* out in a successful response
C15_FailFast ==
    (fpc = "failed" /\ num_files >= 2) =>
       /\ held = <<>>
       /\ PartIndexes = {}
       /\ Len(sent) = 1
       /\ sent[1] = Response(exception_handler_status(file_exc), <<>>,
                             "detail")

\* C16: check_memory sets is_memory_low exactly when usage >= 0.8 * limit,
\* the boundary included: of limit 1000, usage 850 and 800 are low, 700 is not
C16_Scenario ==
    /\ check_memory([usage |-> 850, limit |-> 1000])
    /\ check_memory([usage |-> 800, limit |-> 1000])
    /\ ~check_memory([usage |-> 700, limit |-> 1000])

C16_MemoryThreshold ==
    /\ C16_Scenario
    /\ (ev_checked # NoReading) =>
          (ev_memory_low <=>
             (/\ ev_checked.limit # None
              /\ 10 * ev_checked.usage >= 8 * ev_checked.limit))

C16_Witness ==
    /\ ev_checked = [usage |-> 800, limit |-> 1000]
    /\ ev_memory_low
    /\ mem_usage = [usage |-> 700, limit |-> 1000]
    /\ \E r \in Clients : mstatus[r] = 503

\* C17: (the claim) the health probe answers UNHEALTHY whenever memory is
\* low and HEALTHY whenever it is not, whatever the number of active requests
C17_ProbeFollowsMemoryOnly ==
    (health # NoHealth) =>
       health.status =
          IF health.memory_status = "LOW" THEN "UNHEALTHY" ELSE "HEALTHY"

\* C17 (amended): app.py's probe answers HEALTHY (200) when memory is not
\* low, UNHEALTHY (503) when it is low and no request is active, DEGRADED
\* (200) when it is low and requests are active; the probe of events.py
\* answers UNHEALTHY (503) or HEALTHY (200) on memory alone
C17_HealthProbe ==
    /\ (health # NoHealth) =>
          /\ (health.memory_status = "LOW") <=> is_memory_low
          /\ (health.memory_status = "OK") <=> ~is_memory_low
          /\ (~is_memory_low) =>
                (health.status = "HEALTHY" /\ health.status_code = 200)
          /\ (is_memory_low /\ health.active_requests = 0) =>
                (health.status = "UNHEALTHY" /\ health.status_code = 503)
          /\ (is_memory_low /\ health.active_requests > 0) =>
                (health.status = "DEGRADED" /\ health.status_code = 200)
    /\ (ev_health # NoEventsHealth) =>
          /\ ev_memory_low =>
                (ev_health.status = "UNHEALTHY" /\ ev_health.status_code = 503)
          /\ (~ev_memory_low) =>
                (ev_health.status = "HEALTHY" /\ ev_health.status_code = 200)

C17_Witness ==
    /\ is_memory_low
    /\ health.status = "DEGRADED"
    /\ health.active_requests = 1
    /\ active_requests = 1
    /\ ev_health.status = "UNHEALTHY"

\* what the memory reading means by the threshold
UsageUnderThreshold ==
    \/ mem_usage.limit = None
    \/ 10 * mem_usage.usage < 8 * mem_usage.limit

InFlightEvents == {r \in Clients : epc[r] = "call_next"}

GateRejects ==
    not_ready_rejects(use_max_requests_limit, make_not_ready_when_processing,
                      is_ready, is_live, is_processing)

LimitReached ==
    use_max_requests_limit /\ processed_requests >= max_requests

C20_NotReadyButLive ==
    (make_not_ready_when_processing /\ InFlightEvents # {}) =>
       /\ ready_healthcheck(is_ready, make_not_ready_when_processing,
                            is_processing) = 503
       /\ live_healthcheck(is_live, is_ready) = 200

C20_Witness ==
    /\ make_not_ready_when_processing
    /\ InFlightEvents # {}
    /\ processed_requests = 1
    /\ ~is_ready
    /\ is_live
    /\ is_processing


SingleShot == use_max_requests_limit /\ max_requests = 1

C22_ProbesOnlyRead ==
    [][(Healthcheck \/ EventsHealthcheck \/ ReadyLiveProbe) =>
          UNCHANGED <<is_processing, processed_requests, is_ready, is_live,
                      active_requests, epc, eorig, estatus, rpc, rstatus,
                      dispatchVars, filesVars>>]_vars

C22_Witness ==
    /\ InFlightEvents # {}
    /\ ready_healthcheck(is_ready, make_not_ready_when_processing,
                         is_processing) = 503
    /\ ev_checked # NoReading
    /\ ev_health.status_code = 503
    /\ active_requests > 0
    /\ health.status_code = 200
    /\ health.status = "DEGRADED"


\* C23: with len(pdf_pages) <= split size no chunk is made and no remote call
\* is sent, and what is returned is the Partition Engine's result for the
\* whole file, numbered from starting_page_number
C23_SmallFileLocal ==
    ~IsChunked =>
       /\ splits = <<>>
       /\ calls = <<>>
       /\ fstate = <<>>
       /\ outcome.kind = "return" =>
             /\ outcome.elements = partition(pdf_pages, starting_page_number)
             /\ Len(outcome.elements) = Len(pdf_pages)
             /\ \A p \in 1..Len(pdf_pages) :
                   outcome.elements[p].page_number =
                      p + (starting_page_number - 1)

C23_Witness ==
    /\ pc = "responded"
    /\ ~IsChunked
    /\ Len(pdf_pages) = 2
    /\ pages_per_pdf = 2
    /\ starting_page_number = 2
    /\ outcome.kind = "return"
    /\ http_body = partition(pdf_pages, 2)


\* C24: the chunk calls under way, a call between two tries included, are
\* never more than max_workers (UNSTRUCTURED_PARALLEL_MODE_THREADS, 3 when
\* unset), and the other chunks wait in the pool's queue
C24_PoolWidth == Cardinality(Running) <= thread_count

C24_Witness ==
    /\ Cardinality(Running) = thread_count
    /\ Pending # {}
    /\ \E k \in Running : Len(calls[k]) > 0


\* C25: with a split size of 0 or below no chunk is produced, no chunk call
\* is made, and the dispatch ends with an error
C25_BadSplitSizeIsFatal ==
    pages_per_pdf <= 0 =>
       /\ splits = <<>>
       /\ calls = <<>>
       /\ pc \notin {"map", "iterate"}


Occurrences(seq, e) == Cardinality({i \in 1..Len(seq) : seq[i] = e})

RECURSIVE OccurrencesInResults(_, _)
\* how often the chunk calls 1..n returned the element e
OccurrencesInResults(n, e) ==
    IF n = 0 THEN 0
    ELSE OccurrencesInResults(n - 1, e) + Occurrences(fresult[n], e)

ReturnedByChunks ==
    UNION {{fresult[k][i] : i \in 1..Len(fresult[k])} : k \in Futures}

\* C26: what a chunked dispatch returns holds every element the chunk calls
\* returned as often as they returned it, identifier included, and no other
\* element; identifiers that differ in the chunk results differ in the merge
C26_MergeKeepsElements ==
    (outcome.kind = "return" /\ IsChunked) =>
       /\ \A e \in ReturnedByChunks :
             Occurrences(outcome.elements, e) =
                OccurrencesInResults(Len(fstate), e)
       /\ \A i \in 1..Len(outcome.elements) :
             outcome.elements[i] \in ReturnedByChunks
       /\ \A i, j \in 1..Len(outcome.elements) :
             (i # j /\ outcome.elements[i].element_id =
                       outcome.elements[j].element_id) =>
                \E k, l \in Futures :
                   \E a \in 1..Len(fresult[k]), b \in 1..Len(fresult[l]) :
                      /\ <<k, a>> # <<l, b>>
                      /\ fresult[k][a].element_id = fresult[l][b].element_id

C26_Witness ==
    /\ pc = "responded"
    /\ outcome.kind = "return"
    /\ Len(splits) = 2
    /\ Len(fresult[1]) = 2
    /\ Len(fresult[2]) = 1
    /\ out_of_order
    /\ Len(http_body) = 3
    /\ \A i, j \in 1..3 :
          i # j => http_body[i].element_id # http_body[j].element_id


InsideChipper == {r \in ChipperRequests : chipper_pc[r] = "inside"}

\* C27: at most one request is inside the with block of
\* ChipperMemoryProtection at any time
C27_OneInsideChipper == Cardinality(InsideChipper) <= 1


RECURSIVE SumOfRowCounts(_)
\* the rows of the first n per-file tables, counted file by file
SumOfRowCounts(n) ==
    IF n = 0 THEN 0 ELSE SumOfRowCounts(n - 1) + Len(csv_responses[n].lines)

RowsOfFile(n) ==
    {csv_responses[n].lines[i] : i \in 1..Len(csv_responses[n].lines)}

DistinctRows == UNION {RowsOfFile(n) : n \in 1..Len(csv_responses)}

SharedRow ==
    \E m, n \in 1..Len(csv_responses) :
       m # n /\ RowsOfFile(m) \cap RowsOfFile(n) # {}

\* C28: (the claim) the merged CSV of files with the same columns has as
\* many rows as the per-file tables have together, whatever the rows
C28_RowCountIsSum ==
    csv_pc = "done" =>
       Len(csv_data.rows) = SumOfRowCounts(Len(csv_responses))

\* C28 (amended): the merged CSV has one row for each distinct row of the
\* per-file tables; a row that several files have is merged into one, so
\* the count is the sum of the per-file counts exactly when no row is shared
C28_RowCountOfOuterMerge ==
    csv_pc = "done" =>
       /\ Len(csv_data.rows) = Cardinality(DistinctRows)
       /\ \A row \in DistinctRows : CountRows(csv_data.rows, row) = 1
       /\ ~SharedRow <=>
             Len(csv_data.rows) = SumOfRowCounts(Len(csv_responses))

C28_Witness ==
    /\ csv_pc = "done"
    /\ Len(csv_responses) = 2
    /\ Len(csv_responses[1].lines) = 2
    /\ Len(csv_responses[2].lines) = 2
    /\ Cardinality(RowsOfFile(1) \cap RowsOfFile(2)) = 1
    /\ Len(csv_data.rows) = 3

\* C29: merging a file's CSV rendering with itself gives a table with the
\* rows of the original, each once
C29_SelfMergeKeepsRows ==
    (/\ csv_pc = "done"
     /\ \A n \in 1..Len(csv_responses) : csv_responses[n] = csv_responses[1])
       =>
       /\ Len(csv_data.rows) = Len(csv_responses[1].lines)
       /\ \A i \in 1..Len(csv_data.rows) :
             csv_data.rows[i] = csv_responses[1].lines[i]

C29_Witness ==
    /\ csv_pc = "done"
    /\ csv_idx = 2
    /\ csv_responses[1] = csv_responses[2]
    /\ Len(csv_responses[1].lines) = 2
    /\ Len(csv_data.rows) = 2


KeyConfigured == api_key_env # <<>> /\ api_key_env[1] # ""
KeyMatches == api_key # <<>> /\ api_key[1] = api_key_env[1]

\* C30: with a key configured, a request without the header or with another
\* key is answered 401 and none of its files is taken up; a request with the
\* key goes on to its files and is never answered 401
C30_ApiKeyChecked ==
    KeyConfigured =>
       /\ ~KeyMatches =>
             /\ fpc \in {"called", "raising", "failed"}
             /\ gen_idx = 0
             /\ held = <<>>
             /\ fpc # "called" => file_exc = HTTPException(401)
             /\ fpc = "failed" => sent = <<Response(401, <<>>, "detail")>>
             /\ fpc # "failed" => sent = <<>>
       /\ KeyMatches =>
             /\ file_exc # HTTPException(401)
             /\ \A i \in 1..Len(sent) : sent[i].status # 401

C30_Witness ==
    /\ KeyConfigured
    /\ api_key = <<>>
    /\ num_files = 2
    /\ IsMultipart
    /\ fpc = "failed"
    /\ gen_idx = 0
    /\ sent = <<Response(401, <<>>, "detail")>>

\* the step in which the request of client r is answered by call_next with a
\* status other than 400 and 422
CompletesCounted(r) ==
    /\ epc[r] = "call_next"
    /\ epc'[r] = "done"
    /\ estatus'[r] \notin {400, 422}

\* C31: (the claim) processed_requests counts the requests completed with a
\* status other than 400/422: every such completion adds exactly one, no
\* other step changes the count, and the count never decreases
C31_CountsCompletions ==
    [][/\ (\E r \in Clients : CompletesCounted(r)) =>
             processed_requests' = processed_requests + 1
       /\ (\A r \in Clients : ~CompletesCounted(r)) =>
             processed_requests' = processed_requests
       /\ processed_requests' >= processed_requests]_vars

\* C32: (the claim) when call_next raises, the middleware still clears
\* is_processing and recomputes ready and live before the exception leaves
\* it, so with MAKE_NOT_READY_WHEN_PROCESSING and nothing in flight the next
\* partition request is not rejected as "processing"
C32_RaiseClearsProcessing ==
    [][\A r \in Clients :
          (epc[r] = "call_next" /\ epc'[r] = "raised") =>
             /\ ~is_processing'
             /\ is_ready' = update_state(use_max_requests_limit,
                                         processed_requests', max_requests)
             /\ is_live' = update_state(use_max_requests_limit,
                                        processed_requests', max_requests)
             /\ (make_not_ready_when_processing /\ InFlightEvents' = {}) =>
                   ~(make_not_ready_when_processing /\ is_processing')]_vars

\* the clients whose last partition request was admitted to processing and
\* answered with a status other than 400 and 422: as many requests, at least,
\* have been admitted and count towards the limit
AdmittedAndCounted ==
    {r \in Clients : epc[r] = "done" /\ estatus[r] \notin {400, 422}}

\* C33: (the claim) with USE_MAX_REQUESTS_LIMIT the partition requests
\* admitted to processing and not answered 400/422 are never more than
\* MAX_REQUESTS, also when they arrive concurrently
C33_AdmittedWithinLimit ==
    use_max_requests_limit =>
       Cardinality(AdmittedAndCounted) <= max_requests

\* the step in which the request of client r is answered 400 or 422
CompletesInvalid(r) ==
    /\ epc[r] = "call_next"
    /\ epc'[r] = "done"
    /\ estatus'[r] \in {400, 422}

\* C34: (the claim) a request answered 400 or 422 leaves the shared state as
\* if it had never arrived: the count keeps what the other requests added to
\* it, and live stays what update_state made of that count
C34_ClientErrorLeavesNoTrace ==
    [][\A r \in Clients :
          CompletesInvalid(r) =>
             /\ processed_requests' = processed_requests
             /\ is_live' = update_state(use_max_requests_limit,
                                        processed_requests, max_requests)]_vars

\* the reading of the last probe makes the memory low
LowAtLastProbe == ev_checked # NoReading /\ check_memory(ev_checked)

Cancelled == {k \in Futures : fstate[k] = "CANCELLED"}

\* C36: (the claim) when a chunk has failed for good, no chunk call handed
\* to the pool is cancelled: each of them still runs
C36_NothingCancelled == Cancelled = {}

\* C36 (amended): when a chunk has failed for good, a chunk call that has
\* started is never cancelled: it runs to its end before the error leaves the
\* dispatch, and its result is discarded; a chunk call still waiting in the
\* pool's queue is cancelled and makes no remote call
C36_StartedCallsRunToCompletion ==
    [][/\ \A k \in Futures :
             /\ (fstate[k] = "RUNNING") =>
                   (k \in Futures' /\ fstate'[k] \in {"RUNNING", "FINISHED"})
             /\ (fstate[k] = "CANCELLED") =>
                   (calls[k] = <<>> /\ fresult[k] = <<>> /\ pc # "iterate")
       /\ (pc \in {"raising", "responded"} /\ outcome.kind = "raise") =>
             (Pending = {} /\ http_body = <<>>)
       /\ (pc = "responded" /\ outcome.kind = "raise") => Running = {}]_vars

C36_Witness ==
    /\ pc = "responded"
    /\ outcome.kind = "raise"
    /\ Len(fstate) = 3
    /\ fexc[1] # NoExc
    /\ fstate[2] = "FINISHED" /\ fexc[2] = NoExc /\ fresult[2] # <<>>
    /\ fstate[3] = "CANCELLED"
    /\ http_body = <<>>

\* the chunk call of future k has been started by a pool thread
Started(k) == fstate[k] = "RUNNING" \/ calls[k] # <<>>

\* C37: every attempt of a chunk call posts the chunk's own pages with
\* starting_page_number = the request's starting page number + the chunk's
\* offset; the posted values are the same for every attempt, and the offset of
\* one chunk is never added to the page number of another
C37_SamePayloadEveryAttempt ==
    [][\A k \in Futures :
          /\ Started(k) =>
                /\ sent_page[k] = starting_page_number + splits[k].offset
                /\ sent_page'[k] = sent_page[k]
                /\ splits'[k] = splits[k]
          /\ (Len(calls'[k]) > Len(calls[k])) =>
                /\ fstate[k] = "RUNNING"
                /\ Len(calls'[k]) = Len(calls[k]) + 1
          /\ Succeeded(k) =>
                fresult[k] = partition(splits[k].pages,
                                       starting_page_number + splits[k].offset)
       /\ starting_page_number' = starting_page_number]_vars

C37_Witness ==
    /\ pc = "responded"
    /\ starting_page_number = MaxStartingPage
    /\ Len(splits) = 3
    /\ calls[2] = <<500, 200>>
    /\ calls[3] = <<500, 500>>
    /\ sent_page = <<MaxStartingPage, MaxStartingPage + 1, MaxStartingPage + 2>>

\* C38: whatever the remote answers, no chunk call makes more than max_tries
\* attempts, and the dispatch comes to its end: every started call is over,
\* and the dispatcher has returned the merged result or raised an error
C38_DispatchTerminates ==
    /\ [](\A k \in Futures : Len(calls[k]) <= max_tries)
    /\ <>(/\ pc = "responded"
          /\ outcome.kind \in {"return", "raise"}
          /\ Running = {}
          /\ Pending = {})

C38_Witness ==
    /\ pc = "responded"
    /\ outcome.kind = "raise"
    /\ max_tries = 3
    /\ Len(splits) = 3
    /\ calls[1] = <<500, 500, 200>>
    /\ calls[2] = <<500, 500, 500>>
    /\ fexc[2] = HTTPException(500)
    /\ Running = {}

\* C39: __exit__ clears is_chipper_processing however the protected section
\* is left, so with nobody inside the flag is down and the request that
\* checks it is admitted; a request answered 503 by __enter__ leaves the flag
\* up and never runs __exit__
C39_GuardReleasedOnExit ==
    [][/\ (InsideChipper = {}) => ~is_chipper_processing
       /\ \A r \in ChipperRequests :
             /\ (chipper_pc[r] = "inside" /\ chipper_pc'[r] # "inside") =>
                   (chipper_pc'[r] = "exited" /\ ~is_chipper_processing')
             /\ (chipper_pc[r] = "enter" /\ chipper_pc'[r] # "enter") =>
                   IF InsideChipper = {}
                   THEN chipper_pc'[r] = "check_passed"
                   ELSE chipper_pc'[r] \in {"check_passed", "rejected"}
             /\ (chipper_pc[r] = "enter" /\ chipper_pc'[r] = "rejected") =>
                   (is_chipper_processing /\ is_chipper_processing')
             /\ (chipper_pc[r] = "rejected") =>
                   chipper_pc'[r] \in {"rejected", "enter"}]_vars

C39_Witness ==
    /\ chipper_pc[1] = "exited"
    /\ chipper_pc[2] = "inside"
    /\ chipper_pc[3] = "rejected"
    /\ is_chipper_processing

\* C40: with no remote url, a file with more pages than the split size makes
\* no remote call: each chunk call that starts raises HTTPException(500) at
\* once and is not started again, the dispatch raises that error, and the
\* client of a response that has not started is answered 500
C40_NoUrlFailsWithoutCall ==
    [][(request_url = <<>> /\ IsChunked) =>
         /\ \A k \in Futures :
               /\ calls[k] = <<>>
               /\ fresult[k] = <<>>
               /\ fstate[k] # "RUNNING"
               /\ (fstate[k] = "FINISHED") =>
                     (fexc[k] = HTTPException(500) /\ fstate'[k] = "FINISHED")
         /\ outcome.kind # "return"
         /\ (outcome.kind = "raise") => outcome.exc = HTTPException(500)
         /\ (pc = "responded") =>
               /\ outcome.kind = "raise"
               /\ http_body = <<>>
               /\ ~IsMultipart => http_status = 500]_vars

C40_Witness ==
    /\ pc = "responded"
    /\ request_url = <<>>
    /\ ~IsMultipart
    /\ Len(fstate) = 3
    /\ fstate = <<"FINISHED", "FINISHED", "CANCELLED">>
    /\ calls = << <<>>, <<>>, <<>> >>
    /\ outcome.exc = HTTPException(500)
    /\ http_status = 500

====
